---- MODULE Spec2Model ----
(***************************************************************************)
(* A model of godb's storage core: the paged disk manager                  *)
(* (internal/storage/page), the LRU replacer and the buffer pool           *)
(* (internal/storage/buffer).                                              *)
(*                                                                         *)
(* A page image is abstracted to one value of Images (0 is the all-zero    *)
(* page); a buffer is a length together with an image.  The file is the    *)
(* sequence of its page-sized blocks, so its length in bytes is            *)
(* PageSize * Len(file).                                                   *)
(***************************************************************************)
EXTENDS Integers, Sequences, FiniteSets, TLC

\* ------------------------------------------------------------------ bounds
NumThreads == 2
PoolSize == 1
MaxPages == 2
\* Writes of one page through pins (each stores a fresh image); also the
\* non-zero images a caller passes to the disk manager.
MaxVal == 1
\* Close-and-reopen cycles of the disk manager.
MaxReopens == 1
\* The replacer on its own: largest frame id handed to it, calls made.
MaxLruFrame == 2
MaxLruOps == 6
\* Largest size handed to NewPool when only its windows are looked at.
MaxWindowFrames == 4
\* The slotted page: bytes of its buffer, largest slot id a caller passes,
\* calls made on one page.
PageLen == 16
MaxSlotArg == 2
MaxPageOps == 7
\* Calls made on the page that holds a Dead slot without storage.
MaxStaleOps == 5
\* The key-value engine: Set and Get calls begun by its threads.
MaxKvOps == 4
\* The executor: fields of one command line, Execute calls made.
MaxFields == 4
MaxExecOps == 3

\* --------------------------------------------------------------- constants
PageSize == 4096
\* The largest value of a 15-bit slot field.
MaxSlotField == 32767

Threads == 1..NumThreads
NoThread == 0
FrameIds == 0..(PoolSize - 1)
NoFrame == -1
\* Page ids a caller may ask for: MaxPages itself is never allocated.
PageIds == 0..MaxPages
NoPage == -1
Zero == 0
Images == 0..MaxVal
NoImage == -1
\* Buffer lengths a caller passes to ReadPage and WritePage.
BufLens == {PageSize - 1, PageSize, PageSize + 1}
LatchShared == 0
LatchExclusive == 1
\* Outcomes of one positional I/O call of the operating system.
IOOutcomes == {TRUE, FALSE}

VARIABLES
    dm,       \* the disk manager: [file, nextPage, open]
    durable,  \* the file image as of the last Sync
    pool,     \* the pool's mutex-guarded metadata and the frames
    mu,       \* holder of pool.mu, or NoThread
    latch,    \* per frame: [w |-> holder of the writer side, r |-> readers]
    pc,       \* per thread: where it is in its current call
    pin,      \* per thread: the pagePin it asks for or holds
    ret,      \* what the critical section that ended in the last step returned
    wstate,   \* per thread: writes and MarkDirty calls under the current pin
    latest,   \* per page: the image last written through a pin
    lax,      \* some pin was released with a write made after its last MarkDirty
    dpc,      \* per thread: position in a direct disk manager call
    dop,      \* per thread: the arguments and locals of that call
    dret,     \* what the disk manager call that ended in the last step returned
    dmMtx,    \* diskManager.mtx: the thread inside Lock()..Unlock(), or NoThread
    hist,     \* what the direct disk manager calls have returned so far
    slotIO,   \* one writeSlot / unpackSlot exchange: its inputs and outputs
    spData,   \* the buffer of the slotted page
    spLive,   \* per slot id: the tuple its last InsertTuple stored, until set Unused
    spRet,    \* what the slotted page call of the last step was and returned
    spGhost,  \* calls made so far; whether one named no slot or an oversized tuple
    lru,      \* an LRU replacer used on its own
    lruRet,   \* what the replacer call of the last step was and returned
    lruGhost, \* per frame the time of its last Unpin, 0 once pinned or evicted;
              \* the frames pinned since their last Unpin; whether every
              \* Unpin so far was of a frame not in the list
    kvData,   \* inMemoryKVEngine.data: per key whether it is present, and its value
    kvMtx,    \* inMemoryKVEngine.mtx: [w |-> holder of the writer side, r |-> readers]
    kpc,      \* per thread: where it is in its Set or Get call
    kop,      \* per thread: the arguments and locals of that call
    kvRet,    \* what the Set or Get that returned in the last step returned
    kvGhost,  \* calls begun; per key the value of the Set that returned last
    exRet,    \* the command line of the last Execute call and what it returned
    exGhost,  \* Execute calls made
    adm,      \* the disk manager with the atomic counter: [nextPage, file, filled]
    apc,      \* per thread: where it is in its call of that disk manager
    aop,      \* per thread: the arguments and locals of that call
    aret      \* what the call of that disk manager that ended in the last step returned

vars == <<dm, durable, pool, mu, latch, pc, pin, ret, wstate, latest, lax,
          dpc, dop, dret, dmMtx, hist, slotIO, spData, spLive, spRet, spGhost,
          lru, lruRet, lruGhost, kvData, kvMtx, kpc, kop, kvRet, kvGhost, exRet, exGhost,
          adm, apc, aop, aret>>
poolVars == <<pool, mu, latch, pc, pin, ret, wstate, latest, lax>>
diskVars == <<dpc, dop, dret, dmMtx, hist>>
\* What neither the pool nor the disk manager touches.
restVars == <<slotIO, spData, spLive, spRet, spGhost, lru, lruRet, lruGhost,
              kvData, kvMtx, kpc, kop, kvRet, kvGhost, exRet, exGhost,
              adm, apc, aop, aret>>
pageVars == <<spData, spLive, spRet, spGhost>>
lruVars == <<lru, lruRet, lruGhost>>
kvVars == <<kvData, kvMtx, kpc, kop, kvRet, kvGhost>>
execVars == <<exRet, exGhost>>
atomVars == <<adm, apc, aop, aret>>

\* ------------------------------------------------------------ disk manager
calculateOffsetByPageID(pageID) == pageID * PageSize

getFileSize(file) == Len(file) * PageSize

\* os.File.WriteAt of one page-sized buffer at a page-aligned offset: the
\* file grows (zero-filled) when the offset lies at or beyond its end.
WriteAt(file, img, off) ==
    LET i == (off \div PageSize) + 1
    IN  IF i <= Len(file)
        THEN [file EXCEPT ![i] = img]
        ELSE file \o [k \in 1..(i - 1 - Len(file)) |-> Zero] \o <<img>>

\* os.File.ReadAt of one page: a read past the end of the file is an error.
ReadAt(file, off) ==
    IF off + PageSize <= getFileSize(file)
    THEN [err |-> FALSE, img |-> file[(off \div PageSize) + 1]]
    ELSE [err |-> TRUE, img |-> Zero]

\* diskManager.writePage: fails when the file is closed or the I/O fails.
writePage(d, pageID, img, ioOk) ==
    IF d.open /\ ioOk
    THEN [dm |-> [d EXCEPT !.file = WriteAt(d.file, img, calculateOffsetByPageID(pageID))],
          err |-> FALSE]
    ELSE [dm |-> d, err |-> TRUE]

\* The two checks ReadPage and WritePage make before any I/O.
wrongSize(len) == len # PageSize

outOfBounds_strict(pageID, nextPage) == pageID > nextPage
outOfBounds(pageID, nextPage) == pageID >= nextPage

rejected(len, pageID, nextPage) == wrongSize(len) \/ outOfBounds(pageID, nextPage)

\* NewDiskManager on the file left on the path.
NewDiskManager_fresh(file) == [file |-> file, nextPage |-> 0, open |-> TRUE]
NewDiskManager(file) ==
    [file |-> file, nextPage |-> getFileSize(file) \div PageSize, open |-> TRUE]

\* AllocatePage as one step (every call the pool makes is under pool.mu).
AllocatePage(d, ioOk) ==
    LET w == writePage(d, d.nextPage, Zero, ioOk)
    IN  IF w.err
        THEN [dm |-> d, pageID |-> 0, err |-> TRUE]
        ELSE [dm |-> [w.dm EXCEPT !.nextPage = @ + 1], pageID |-> d.nextPage, err |-> FALSE]

ReadPage(d, pageID, len, ioOk) ==
    IF rejected(len, pageID, d.nextPage) \/ ~d.open \/ ~ioOk
    THEN [err |-> TRUE, img |-> Zero]
    ELSE ReadAt(d.file, calculateOffsetByPageID(pageID))

WritePage(d, pageID, len, img, ioOk) ==
    IF rejected(len, pageID, d.nextPage)
    THEN [dm |-> d, err |-> TRUE]
    ELSE writePage(d, pageID, img, ioOk)

\* diskManager.Sync: what the file holds becomes durable.
Sync(d, dur, ioOk) ==
    IF d.open /\ ioOk
    THEN [durable |-> d.file, err |-> FALSE]
    ELSE [durable |-> dur, err |-> TRUE]

\* diskManager.Close.
Close(d) == [d EXCEPT !.open = FALSE]

\* ------------------------------------------------------------ LRU replacer
\* list: front (index 1) is the newest; nodes: the frames that have an entry
\* in the map, which always points at the frontmost element of that frame.
NewLRUReplacer == [list |-> <<>>, nodes |-> {}]

RemoveAt(s, i) == SubSeq(s, 1, i - 1) \o SubSeq(s, i + 1, Len(s))

FirstIndex(s, x) == CHOOSE i \in 1..Len(s) : s[i] = x /\ \A j \in 1..(i - 1) : s[j] # x

lruPin(r, frameID) ==
    IF frameID \notin r.nodes
    THEN r
    ELSE [list |-> RemoveAt(r.list, FirstIndex(r.list, frameID)),
          nodes |-> r.nodes \ {frameID}]

lruUnpin(r, frameID) ==
    [list |-> <<frameID>> \o r.list, nodes |-> r.nodes \cup {frameID}]

\* An Evict that takes the newest frame.
lruEvict_front(r) ==
    IF Len(r.list) = 0
    THEN [replacer |-> r, frameID |-> 0, ok |-> FALSE]
    ELSE [replacer |-> [list |-> Tail(r.list), nodes |-> r.nodes \ {r.list[1]}],
          frameID |-> r.list[1], ok |-> TRUE]

lruEvict(r) ==
    IF Len(r.list) = 0
    THEN [replacer |-> r, frameID |-> 0, ok |-> FALSE]
    ELSE LET back == r.list[Len(r.list)]
         IN  [replacer |-> [list |-> SubSeq(r.list, 1, Len(r.list) - 1),
                            nodes |-> r.nodes \ {back}],
              frameID |-> back, ok |-> TRUE]

\* The frames handed to a replacer used on its own.
LruFrames == 0..MaxLruFrame
NoLruRet == [op |-> "none", frameID |-> 0, ok |-> FALSE]

\* ------------------------------------------------------------- buffer pool
NoRet == [t |-> NoThread, op |-> "none", err |-> "nil", writes |-> {}]

\* new: the pin comes from NewPage.
NoPin == [pageID |-> NoPage, frameID |-> NoFrame, mode |-> LatchShared, new |-> FALSE]

NewPool ==
    [pageToFrameMap |-> [p \in PageIds |-> NoFrame],
     frames |-> [f \in FrameIds |-> [pageID |-> 0, data |-> Zero, dirty |-> FALSE, pinCount |-> 0]],
     freeFrameIDs |-> [i \in 1..PoolSize |-> i - 1],
     replacer |-> NewLRUReplacer]

\* The window of blockOfBytes that NewPool gives frame i as its data, as
\* [left, right).
frameWindow(i) == [left |-> i * PageSize, right |-> i * PageSize + PageSize]

\* A findFreeFrame that reuses a dirty victim without writing it.
evictWriteBack_skip(d, fr, ioOk) == [dm |-> d, err |-> FALSE]

\* The write-back of findFreeFrame: a dirty victim goes to disk first.
evictWriteBack(d, fr, ioOk) ==
    IF fr.dirty
    THEN WritePage(d, fr.pageID, PageSize, fr.data, ioOk)
    ELSE [dm |-> d, err |-> FALSE]

\* A findFreeFrame that leaves the victim's page in the index.
findFreeFrame_keepMapping(p, d, ioOk) ==
    IF Len(p.freeFrameIDs) > 0
    THEN [pool |-> [p EXCEPT !.freeFrameIDs = SubSeq(@, 1, Len(@) - 1)],
          dm |-> d, frameID |-> p.freeFrameIDs[Len(p.freeFrameIDs)], err |-> "nil"]
    ELSE LET ev == lruEvict(p.replacer)
             p1 == [p EXCEPT !.replacer = ev.replacer]
             fr == p.frames[ev.frameID]
             w  == evictWriteBack(d, fr, ioOk)
         IN  IF ~ev.ok
             THEN [pool |-> p, dm |-> d, frameID |-> NoFrame, err |-> "ErrBufferPoolFull"]
             ELSE IF w.err
             THEN [pool |-> p1, dm |-> d, frameID |-> NoFrame, err |-> "ErrWrite"]
             ELSE [pool |-> [p1 EXCEPT !.frames[ev.frameID].dirty = FALSE],
                   dm |-> w.dm, frameID |-> ev.frameID, err |-> "nil"]

findFreeFrame(p, d, ioOk) ==
    IF Len(p.freeFrameIDs) > 0
    THEN [pool |-> [p EXCEPT !.freeFrameIDs = SubSeq(@, 1, Len(@) - 1)],
          dm |-> d, frameID |-> p.freeFrameIDs[Len(p.freeFrameIDs)], err |-> "nil"]
    ELSE LET ev == lruEvict(p.replacer)
             p1 == [p EXCEPT !.replacer = ev.replacer]
             fr == p.frames[ev.frameID]
             w  == evictWriteBack(d, fr, ioOk)
         IN  IF ~ev.ok
             THEN [pool |-> p, dm |-> d, frameID |-> NoFrame, err |-> "ErrBufferPoolFull"]
             ELSE IF w.err
             THEN [pool |-> p1, dm |-> d, frameID |-> NoFrame, err |-> "ErrWrite"]
             ELSE [pool |-> [p1 EXCEPT !.pageToFrameMap[fr.pageID] = NoFrame,
                                       !.frames[ev.frameID].dirty = FALSE],
                   dm |-> w.dm, frameID |-> ev.frameID, err |-> "nil"]

\* The tail NewPage and FetchPage share: install the mapping and pin.
installPage(p, frameID, pageID, img) ==
    [p EXCEPT !.pageToFrameMap[pageID] = frameID,
              !.replacer = lruPin(@, frameID),
              !.frames[frameID].data = img,
              !.frames[frameID].pageID = pageID,
              !.frames[frameID].pinCount = @ + 1]

\* The critical section of NewPage.
poolNewPage(p, d, wOk, aOk, rOk) ==
    LET ff == findFreeFrame(p, d, wOk)
        al == AllocatePage(ff.dm, aOk)
        rd == ReadPage(al.dm, al.pageID, PageSize, rOk)
    IN  IF ff.err # "nil"
        THEN [pool |-> ff.pool, dm |-> ff.dm, pin |-> NoPin, err |-> ff.err]
        ELSE IF al.err
        THEN [pool |-> ff.pool, dm |-> al.dm, pin |-> NoPin, err |-> "ErrAllocate"]
        ELSE IF rd.err
        THEN [pool |-> ff.pool, dm |-> al.dm, pin |-> NoPin, err |-> "ErrRead"]
        ELSE [pool |-> installPage(ff.pool, ff.frameID, al.pageID, rd.img),
              dm |-> al.dm,
              pin |-> [pageID |-> al.pageID, frameID |-> ff.frameID, mode |-> LatchExclusive,
                      new |-> TRUE],
              err |-> "nil"]

\* A hit path that forgets p.replacer.Pin.
fetchHit_noReplacerPin(p, frameID) ==
    [p EXCEPT !.frames[frameID].pinCount = @ + 1]

\* The hit path of FetchPage.
fetchHit(p, frameID) ==
    [p EXCEPT !.frames[frameID].pinCount = @ + 1,
              !.replacer = lruPin(@, frameID)]

\* The critical section of FetchPage.
poolFetchPage(p, d, pageID, mode, wOk, rOk) ==
    LET ff == findFreeFrame(p, d, wOk)
        rd == ReadPage(ff.dm, pageID, PageSize, rOk)
    IN  IF p.pageToFrameMap[pageID] # NoFrame
        THEN [pool |-> fetchHit(p, p.pageToFrameMap[pageID]), dm |-> d,
              pin |-> [pageID |-> pageID, frameID |-> p.pageToFrameMap[pageID], mode |-> mode,
                      new |-> FALSE],
              err |-> "nil", hit |-> TRUE]
        ELSE IF ff.err # "nil"
        THEN [pool |-> ff.pool, dm |-> ff.dm, pin |-> NoPin, err |-> ff.err, hit |-> FALSE]
        ELSE IF rd.err
        THEN [pool |-> ff.pool, dm |-> ff.dm, pin |-> NoPin, err |-> "ErrRead", hit |-> FALSE]
        ELSE [pool |-> installPage(ff.pool, ff.frameID, pageID, rd.img),
              dm |-> ff.dm,
              pin |-> [pageID |-> pageID, frameID |-> ff.frameID, mode |-> mode, new |-> FALSE],
              err |-> "nil", hit |-> FALSE]

\* FlushAllPages from frame i on; the write of frame failAt fails.  writes
\* collects what has been passed to WritePage with success.
RECURSIVE flushFrom(_, _, _, _, _)
flushFrom(p, d, i, failAt, writes) ==
    IF i >= PoolSize
    THEN [pool |-> p, dm |-> d, err |-> "nil", writes |-> writes]
    ELSE IF ~p.frames[i].dirty
    THEN flushFrom(p, d, i + 1, failAt, writes)
    ELSE LET w == WritePage(d, p.frames[i].pageID, PageSize, p.frames[i].data, i # failAt)
         IN  IF w.err
             THEN [pool |-> p, dm |-> d, err |-> "ErrWrite", writes |-> writes]
             ELSE flushFrom([p EXCEPT !.frames[i].dirty = FALSE], w.dm, i + 1, failAt,
                            writes \cup {<<p.frames[i].pageID, p.frames[i].data>>})

\* A FlushAllPages that clears the flags and writes nothing.
poolFlushAllPages_clearOnly(p, d, failAt) ==
    [pool |-> [p EXCEPT !.frames = [f \in FrameIds |-> [p.frames[f] EXCEPT !.dirty = FALSE]]],
     dm |-> d, err |-> "nil", writes |-> {}]

\* The critical section of FlushAllPages.
poolFlushAllPages(p, d, failAt) == flushFrom(p, d, 0, failAt, {})

\* The critical section of pagePin.MarkDirty.
poolMarkDirty(p, frameID) == [p EXCEPT !.frames[frameID].dirty = TRUE]

\* The critical section of pagePin.Unpin.
poolUnpin(p, frameID) ==
    LET p1 == [p EXCEPT !.frames[frameID].pinCount = @ - 1]
    IN  IF p1.frames[frameID].pinCount = 0
        THEN [p1 EXCEPT !.replacer = lruUnpin(@, frameID)]
        ELSE p1

\* sync.RWMutex, the frame latch.  Lock takes the writer side (w) and then
\* waits for the readers to leave; RLock is refused while w is taken;
\* Unlock admits every reader that was refused meanwhile.
latchLock(l, t) == [l EXCEPT !.w = t]
latchCanLock(l) == l.w = NoThread
\* A Lock that does not wait for the readers.
latchLocked_ignoreReaders(l) == TRUE
latchLocked(l) == l.r = {}
latchCanRLock(l) == l.w = NoThread
latchRLock(l, t) == [l EXCEPT !.r = @ \cup {t}]
\* An RUnlock that leaves the reader inside.
latchRUnlock_keep(l, t) == l
latchRUnlock(l, t) == [l EXCEPT !.r = @ \ {t}]
\* An Unlock that leaves the parked readers asleep.
latchUnlock_noWake(l, blocked) == [w |-> NoThread, r |-> {}]
latchUnlock(l, blocked) == [w |-> NoThread, r |-> blocked]

\* ------------------------------------------------------------ slotted page
\* A page buffer is the sequence of its bytes: byte i of the Go slice is
\* data[i + 1].  uint16 arithmetic wraps at Wrap16; a 32-bit word is kept as
\* its two 16-bit halves.
Wrap16 == 65536
Byte == 256
headerSize == 4
slotSize == 4
slotUsed == 0
slotDead == 1
slotUnused == 2

uint16(n) == n % Wrap16

RECURSIVE BitOr(_, _)
BitOr(a, b) ==
    IF a = 0 THEN b
    ELSE IF b = 0 THEN a
    ELSE (IF a % 2 = 1 \/ b % 2 = 1 THEN 1 ELSE 0) + 2 * BitOr(a \div 2, b \div 2)

\* binary.LittleEndian.Uint16 / PutUint16 at byte offset off.
getUint16(data, off) == data[off + 1] + Byte * data[off + 2]

putUint16(data, off, v) ==
    [data EXCEPT ![off + 1] = v % Byte, ![off + 2] = v \div Byte]

\* copy(data[off:off+Len(bs)], bs)
putBytes(data, off, bs) ==
    [i \in 1..Len(data) |-> IF i > off /\ i <= off + Len(bs) THEN bs[i - off] ELSE data[i]]

\* uint32(offset) << 17, uint32(length) << 2 and uint32(flags), or-ed, as
\* the four bytes PutUint32 stores.
packSlot_lengthFirst(offset, length, flags) ==
    LET lo == BitOr((uint16(offset) * 4) % Wrap16, flags % Byte)
        hi == BitOr((length * 2) % Wrap16, (uint16(offset) * 4) \div Wrap16)
    IN  <<lo % Byte, lo \div Byte, hi % Byte, hi \div Byte>>
packSlot(offset, length, flags) ==
    LET lo == BitOr((length * 4) % Wrap16, flags % Byte)
        hi == BitOr((uint16(offset) * 2) % Wrap16, ((length * 4) \div Wrap16) % Wrap16)
    IN  <<lo % Byte, lo \div Byte, hi % Byte, hi \div Byte>>

\* writeSlot(offset, length, flags, data[ptr:ptr+slotSize])
writeSlot(offset, length, flags, data, ptr) == putBytes(data, ptr, packSlot(offset, length, flags))

\* The slice data[lo:hi] is legal.
sliceOk(data, lo, hi) == lo <= hi /\ hi <= Len(data)

\* unpackSlot: offset = val >> 17, length = (val >> 2) & 0x7FFF, flags = val & 3.
unpackSlot(data, slotID) ==
    LET ptr == uint16(headerSize + slotSize * slotID)
        lo  == getUint16(data, ptr)
        hi  == getUint16(data, ptr + 2)
    IN  IF ~sliceOk(data, ptr, ptr + slotSize)
        THEN [ok |-> FALSE, offset |-> 0, length |-> 0, flags |-> 0]
        ELSE [ok |-> TRUE, offset |-> hi \div 2,
              length |-> (lo \div 4) + (hi % 2) * 16384, flags |-> lo % 4]

slotCount(data) == getUint16(data, 0)

setSlotCount(data, c) == putUint16(data, 0, c)

freeSpacePointer(data) == getUint16(data, 2)

setFreeSpacePointer(data, p) == putUint16(data, 2, p)

\* A tuple is its length and the value every byte of it holds.
tupleBytes(t, n) == [i \in 1..n |-> t.fill]

\* NewSlottedPage over a zeroed buffer of len bytes, then Init.
slottedInit(len) ==
    setFreeSpacePointer(setSlotCount([i \in 1..len |-> 0], 0), uint16(len))

\* findSlotID from slot i on: the first Unused slot, else slotCount; a slot
\* entry that lies beyond the buffer makes unpackSlot panic.
RECURSIVE findSlotFrom(_, _)
findSlotFrom(data, i) ==
    IF i >= slotCount(data)
    THEN [ok |-> TRUE, slotID |-> slotCount(data)]
    ELSE LET u == unpackSlot(data, i)
         IN  IF ~u.ok THEN [ok |-> FALSE, slotID |-> 0]
             ELSE IF u.flags = slotUnused THEN [ok |-> TRUE, slotID |-> i]
             ELSE findSlotFrom(data, i + 1)

findSlotID(data) == findSlotFrom(data, 0)

newSlotSize(data, slotID) == IF slotID < slotCount(data) THEN 0 ELSE slotSize

isAvailableSpace(data, slotID, tupleLen) ==
    LET slotsEndPointer == uint16(headerSize + slotSize * slotCount(data))
    IN  uint16(freeSpacePointer(data) - slotsEndPointer)
          >= uint16(tupleLen + newSlotSize(data, slotID))

\* The loop of isAvailableTotalSpace from slot i on (uint16 sum).
RECURSIVE liveTuplesSizeFrom(_, _, _)
liveTuplesSizeFrom(data, i, acc) ==
    IF i >= slotCount(data)
    THEN [ok |-> TRUE, size |-> acc]
    ELSE LET u == unpackSlot(data, i)
         IN  IF ~u.ok THEN [ok |-> FALSE, size |-> 0]
             ELSE liveTuplesSizeFrom(data, i + 1,
                                     IF u.flags # slotUnused THEN uint16(acc + u.length) ELSE acc)

isAvailableTotalSpace(data, slotID, tupleLen) ==
    LET live == liveTuplesSizeFrom(data, 0, 0)
        availableTotalSpace ==
            uint16(uint16(Len(data)) - headerSize - slotCount(data) * slotSize - live.size)
    IN  [ok |-> live.ok,
         fits |-> availableTotalSpace >= uint16(tupleLen + newSlotSize(data, slotID))]

\* insertTuple: copy the tuple below the free space pointer, write the slot,
\* update the header.  A slice expression out of range panics and leaves
\* what was written before it.
insertTuple(data, slotID, t) ==
    LET fsp  == freeSpacePointer(data)
        lo   == uint16(fsp - uint16(t.len))
        ptr  == uint16(headerSize + slotSize * slotID)
        d1   == putBytes(data, lo, tupleBytes(t, IF t.len < fsp - lo THEN t.len ELSE fsp - lo))
        d2   == writeSlot(lo, t.len, slotUsed, d1, ptr)
        d3   == setFreeSpacePointer(d2, lo)
    IN  IF ~sliceOk(data, lo, fsp) THEN [data |-> data, err |-> "panic"]
        ELSE IF ~sliceOk(d1, ptr, ptr + slotSize) THEN [data |-> d1, err |-> "panic"]
        ELSE [data |-> IF slotID >= slotCount(data) THEN setSlotCount(d3, uint16(slotCount(data) + 1))
                       ELSE d3,
              err |-> "nil"]

\* compact, first loop: the copies of the tuples of the slots that are not
\* Unused, in slot order.
RECURSIVE usedTuplesFrom(_, _, _)
usedTuplesFrom(data, i, acc) ==
    IF i >= slotCount(data)
    THEN [ok |-> TRUE, tuples |-> acc]
    ELSE LET u == unpackSlot(data, i)
         IN  IF ~u.ok THEN [ok |-> FALSE, tuples |-> acc]
             ELSE IF u.flags = slotUnused THEN usedTuplesFrom(data, i + 1, acc)
             ELSE IF ~sliceOk(data, u.offset, uint16(u.offset + u.length))
             THEN [ok |-> FALSE, tuples |-> acc]
             ELSE usedTuplesFrom(data, i + 1,
                                 Append(acc, [slotID |-> i, flags |-> u.flags,
                                              tuple |-> SubSeq(data, u.offset + 1,
                                                               u.offset + u.length)]))

\* compact, second loop: rewrite tuple k and the ones after it below fsp.
RECURSIVE rewriteFrom(_, _, _, _)
rewriteFrom(data, tuples, k, fsp) ==
    IF k > Len(tuples)
    THEN [data |-> setFreeSpacePointer(data, fsp), err |-> "nil"]
    ELSE LET ut  == tuples[k]
             lo  == uint16(fsp - uint16(Len(ut.tuple)))
             ptr == uint16(headerSize + slotSize * ut.slotID)
             d1  == putBytes(data, lo, ut.tuple)
         IN  IF ~sliceOk(data, lo, fsp) THEN [data |-> data, err |-> "panic"]
             ELSE IF ~sliceOk(d1, ptr, ptr + slotSize) THEN [data |-> d1, err |-> "panic"]
             ELSE rewriteFrom(writeSlot(lo, Len(ut.tuple), ut.flags, d1, ptr), tuples, k + 1, lo)

\* A compact that leaves the page as it is.
compact_noMove(data) == [data |-> data, err |-> "nil"]

compact(data) ==
    LET used == usedTuplesFrom(data, 0, <<>>)
    IN  IF ~used.ok THEN [data |-> data, err |-> "panic"]
        ELSE rewriteFrom(setFreeSpacePointer(data, uint16(Len(data))), used.tuples, 1,
                         uint16(Len(data)))

\* InsertTuple runs compact: the fast check fails and the total check passes.
runsCompact(data, t) ==
    LET f == findSlotID(data)
    IN  /\ f.ok
        /\ ~isAvailableSpace(data, f.slotID, t.len)
        /\ isAvailableTotalSpace(data, f.slotID, t.len).ok
        /\ isAvailableTotalSpace(data, f.slotID, t.len).fits

InsertTuple(data, t) ==
    LET f     == findSlotID(data)
        total == isAvailableTotalSpace(data, f.slotID, t.len)
        c     == compact(data)
        ins   == insertTuple(IF runsCompact(data, t) THEN c.data ELSE data, f.slotID, t)
    IN  IF ~f.ok THEN [data |-> data, err |-> "panic", slotID |-> 0]
        ELSE IF isAvailableSpace(data, f.slotID, t.len)
        THEN [data |-> ins.data, err |-> ins.err, slotID |-> f.slotID]
        ELSE IF ~total.ok THEN [data |-> data, err |-> "panic", slotID |-> 0]
        ELSE IF ~total.fits THEN [data |-> data, err |-> "ErrPageFull", slotID |-> 0]
        ELSE IF c.err # "nil" THEN [data |-> c.data, err |-> "panic", slotID |-> 0]
        ELSE [data |-> ins.data, err |-> ins.err, slotID |-> f.slotID]

\* The bounds check of GetTuple and setFlagToSlot.
slotOutOfBounds(data, slotID) == slotID > slotCount(data)

GetTuple(data, slotID) ==
    LET u == unpackSlot(data, slotID)
    IN  IF slotOutOfBounds(data, slotID) THEN [err |-> "ErrOutOfBounds", tuple |-> <<>>]
        ELSE IF ~u.ok \/ ~sliceOk(data, u.offset, uint16(u.offset + u.length))
        THEN [err |-> "panic", tuple |-> <<>>]
        ELSE [err |-> "nil", tuple |-> SubSeq(data, u.offset + 1, u.offset + u.length)]

\* val &^ 3 | flag on the little-endian word at the slot: its lowest byte.
setFlagToSlot(data, slotID, flag) ==
    LET ptr == uint16(headerSize + slotSize * slotID)
    IN  IF slotOutOfBounds(data, slotID) THEN [data |-> data, err |-> "ErrOutOfBounds"]
        ELSE IF ~sliceOk(data, ptr, ptr + slotSize) THEN [data |-> data, err |-> "panic"]
        ELSE [data |-> [data EXCEPT ![ptr + 1] = @ - (@ % 4) + flag], err |-> "nil"]

DeleteTuple(data, slotID) == setFlagToSlot(data, slotID, slotDead)

SetTupleAsUnused(data, slotID) == setFlagToSlot(data, slotID, slotUnused)

\* The slot ids, tuple lengths and byte values the callers pass.
SlotArgs == 0..MaxSlotArg
TupleLens == {1, 3, 4, Wrap16 + 1}
NoTuple == [len |-> 0, fill |-> 0]
NoPageRet == [op |-> "none", err |-> "nil", slotID |-> 0, arg |-> NoTuple, tuple |-> <<>>]

\* The offsets, lengths and flags handed to writeSlot.
SlotOffsets == {0, 1, 255, 256, 4095, 16384, MaxSlotField}
SlotLengths == {0, 1, 255, 256, 4096, 16383, 16384, MaxSlotField}
SlotFlags == 0..3
NoSlotIO ==
    [stage |-> "none", offset |-> 0, length |-> 0, flags |-> 0,
     data |-> <<0, 0, 0, 0, 0, 0, 0, 0>>, out |-> <<0, 0, 0>>]

\* ------------------------------------------- key-value engine and executor
\* A word is the sequence of its characters.
W_set == <<"s", "e", "t">>
W_get == <<"g", "e", "t">>
W_OK == <<"O", "K">>
\* The words of the command lines: the two command names and one other,
\* each of which may stand for a command, a key or a value.
Tokens == {W_set, W_get, <<"k">>}
\* Keys and values the threads that call the engine directly pass.
KvArgs == {<<"k">>, <<"v">>}
\* Every key and value the engine is handed.
Words == Tokens \cup KvArgs

\* A map entry: absent, or present with a value.
NoValue == [ok |-> FALSE, v |-> <<>>]
NoKvOp == [op |-> "none", key |-> <<>>, value |-> <<>>, ok |-> FALSE]
NoKvRet == [t |-> NoThread, op |-> "none", key |-> <<>>, value |-> <<>>, err |-> "nil"]
NoExecRet == [fields |-> <<>>, cmd |-> <<>>, text |-> <<>>, err |-> "nil"]

\* kv.data[string(key)] = value
mapStore(data, key, value) == [data EXCEPT ![key] = [ok |-> TRUE, v |-> value]]

\* v, ok := kv.data[string(key)]
mapLoad(data, key) == data[key]

\* sync.RWMutex: Lock waits for the writer and the readers to leave, RLock
\* for the writer.
kvCanLock(t) == kvMtx.w = NoThread /\ kvMtx.r = {}

\* An RLock that does not wait for the writer.
kvCanRLock_always(t) == TRUE

kvCanRLock(t) == kvMtx.w = NoThread

\* Set and Get when no other thread is in the engine: the lock is free, the
\* call runs from Lock to Unlock in one piece.
engineSet(data, key, value) == [data |-> mapStore(data, key, value), err |-> "nil"]

engineGet(data, key) ==
    IF ~mapLoad(data, key).ok THEN [value |-> <<>>, err |-> "ErrKeyNotFound"]
    ELSE [value |-> mapLoad(data, key).v, err |-> "nil"]

\* A space that is not a tab.
isSpace_blankOnly(c) == c = " "

\* The white space strings.Fields splits around.
isSpace(c) == c \in {" ", "\t", "\n", "\r"}

\* strings.Fields from character i on: cur is the field being read, acc the
\* fields read so far.
RECURSIVE FieldsFrom(_, _, _, _)
FieldsFrom(cmd, i, cur, acc) ==
    IF i > Len(cmd)
    THEN IF cur = <<>> THEN acc ELSE Append(acc, cur)
    ELSE IF isSpace(cmd[i])
         THEN FieldsFrom(cmd, i + 1, <<>>, IF cur = <<>> THEN acc ELSE Append(acc, cur))
         ELSE FieldsFrom(cmd, i + 1, Append(cur, cmd[i]), acc)

Fields(cmd) == FieldsFrom(cmd, 1, <<>>, <<>>)

\* The field count checks of Execute.
setSyntaxOk(fields) == Len(fields) = 3

getSyntaxOk(fields) == Len(fields) = 2

\* kvExecutor.Execute over the engine contents data.
Execute(data, cmd) ==
    LET fields == Fields(cmd)
        get    == engineGet(data, fields[2])
    IN  IF Len(fields) = 0
        THEN [text |-> <<>>, err |-> "ErrInvalidCommandSyntax", data |-> data]
        ELSE IF fields[1] = W_set
        THEN IF ~setSyntaxOk(fields)
             THEN [text |-> <<>>, err |-> "ErrInvalidCommandSyntax", data |-> data]
             ELSE IF engineSet(data, fields[2], fields[3]).err # "nil"
             THEN [text |-> <<>>, err |-> engineSet(data, fields[2], fields[3]).err,
                   data |-> data]
             ELSE [text |-> W_OK, err |-> "nil",
                   data |-> engineSet(data, fields[2], fields[3]).data]
        ELSE IF fields[1] = W_get
        THEN IF ~getSyntaxOk(fields)
             THEN [text |-> <<>>, err |-> "ErrInvalidCommandSyntax", data |-> data]
             ELSE IF get.err # "nil" THEN [text |-> <<>>, err |-> get.err, data |-> data]
             ELSE [text |-> get.value, err |-> "nil", data |-> data]
        ELSE [text |-> <<>>, err |-> "ErrUnknownCommand", data |-> data]

\* The command lines the callers of Execute pass: up to MaxFields words,
\* written with single blanks, or with a tab before, two blanks between and
\* a blank after them.
FieldLists == UNION {[1..n -> Tokens] : n \in 0..MaxFields}
Layouts == {"plain", "padded"}

RECURSIVE joinFrom(_, _, _)
joinFrom(fields, i, sep) ==
    IF i > Len(fields) THEN <<>>
    ELSE (IF i > 1 THEN sep ELSE <<>>) \o fields[i] \o joinFrom(fields, i + 1, sep)

commandLine(fields, layout) ==
    IF layout = "plain" THEN joinFrom(fields, 1, <<" ">>)
    ELSE <<"\t">> \o joinFrom(fields, 1, <<" ", " ">>) \o <<" ">>

\* ---------------------------------------- disk manager, atomic counter
\* The file is the sequence of its pages; filled holds the pages whose
\* zero page AllocatePage has written.
atomNewDiskManager == [nextPage |-> 0, file |-> <<>>, filled |-> {}]

NoAtomOp == [pageID |-> NoPage, img |-> NoImage]
NoAtomRet == [t |-> NoThread, op |-> "none", pageID |-> NoPage, img |-> NoImage, err |-> "nil"]

\* dm.file.WriteAt at the offset of pageID: the file grows up to the page,
\* the pages it skips read as zeros.
atomWriteAt(file, pageID, img) ==
    [i \in 1..(IF pageID + 1 > Len(file) THEN pageID + 1 ELSE Len(file)) |->
        IF i = pageID + 1 THEN img ELSE IF i <= Len(file) THEN file[i] ELSE Zero]

\* dm.file.ReadAt at the offset of pageID: io.EOF beyond the end of the file.
atomReadAt(file, pageID, ok) ==
    IF ~ok \/ pageID + 1 > Len(file) THEN [err |-> TRUE, img |-> NoImage]
    ELSE [err |-> FALSE, img |-> file[pageID + 1]]

\* pageID >= PageID(dm.nextPage.Load())
atomOutOfBounds(d, pageID) == pageID >= d.nextPage

\* ------------------------------------------------------------------- state
InitStorage ==
    /\ dm = NewDiskManager(<<>>)
    /\ durable = <<>>
    /\ pool = NewPool
    /\ mu = NoThread
    /\ latch = [f \in FrameIds |-> [w |-> NoThread, r |-> {}]]
    /\ pc = [t \in Threads |-> "idle"]
    /\ pin = [t \in Threads |-> NoPin]
    /\ ret = NoRet
    /\ wstate = [t \in Threads |-> [pending |-> FALSE, marked |-> FALSE]]
    /\ latest = [p \in PageIds |-> Zero]
    /\ lax = FALSE
    /\ dpc = [t \in Threads |-> "idle"]
    /\ dop = [t \in Threads |-> [pageID |-> 0, len |-> PageSize, img |-> Zero]]
    /\ dret = [t |-> NoThread, op |-> "none", err |-> "nil", pageID |-> 0, len |-> PageSize,
               arg |-> Zero, img |-> Zero]
    /\ dmMtx = NoThread
    /\ hist = [ids |-> <<>>, written |-> [p \in PageIds |-> NoImage],
               writtenGen |-> [p \in PageIds |-> 0], gen |-> 0]

InitPage ==
    /\ spData = slottedInit(PageLen)
    /\ spLive = [s \in SlotArgs |-> NoTuple]
    /\ spRet = NoPageRet
    /\ spGhost = [ops |-> 0, misuse |-> FALSE]

InitLRU ==
    /\ lru = NewLRUReplacer
    /\ lruRet = NoLruRet
    /\ lruGhost = [clock |-> 0, since |-> [f \in LruFrames |-> 0], pinned |-> {},
                   disciplined |-> TRUE]

\* NewInMemoryKVEngine and NewKVExecutor: an empty map, a free mutex.
InitKV ==
    /\ kvData = [k \in Words |-> NoValue]
    /\ kvMtx = [w |-> NoThread, r |-> {}]
    /\ kpc = [t \in Threads |-> "idle"]
    /\ kop = [t \in Threads |-> NoKvOp]
    /\ kvRet = NoKvRet
    /\ kvGhost = [ops |-> 0, done |-> [k \in Words |-> NoValue]]
    /\ exRet = NoExecRet
    /\ exGhost = [ops |-> 0]

\* NewDiskManager of the atomic-counter variant on a new file.
InitAtomic ==
    /\ adm = atomNewDiskManager
    /\ apc = [t \in Threads |-> "idle"]
    /\ aop = [t \in Threads |-> NoAtomOp]
    /\ aret = NoAtomRet

Init == InitStorage /\ slotIO = NoSlotIO /\ InitPage /\ InitLRU /\ InitKV /\ InitAtomic

\* ---------------------------------------------------- buffer pool: actions
\* NewPage: p.mu.Lock().  Allocation stops at MaxPages pages.
NewPageLock(t) ==
    /\ pc[t] = "idle" /\ mu = NoThread /\ dm.nextPage < MaxPages
    /\ mu' = t
    /\ pc' = [pc EXCEPT ![t] = "newpage"]
    /\ ret' = NoRet
    /\ UNCHANGED <<dm, durable, pool, latch, pin, wstate, latest, lax, diskVars, restVars>>

\* NewPage: the critical section, up to p.mu.Unlock().
NewPageBody(t) ==
    /\ pc[t] = "newpage"
    /\ \E wOk \in IOOutcomes, aOk \in IOOutcomes, rOk \in IOOutcomes :
         LET r == poolNewPage(pool, dm, wOk, aOk, rOk)
         IN  /\ pool' = r.pool
             /\ dm' = r.dm
             /\ pin' = [pin EXCEPT ![t] = r.pin]
             /\ ret' = [t |-> t, op |-> "NewPage", err |-> r.err, writes |-> {}]
             /\ pc' = [pc EXCEPT ![t] = IF r.err = "nil" THEN "latch" ELSE "idle"]
    /\ mu' = NoThread
    /\ UNCHANGED <<durable, latch, wstate, latest, lax, diskVars, restVars>>

\* FetchPage(pageID, mode): p.mu.Lock().
FetchPageLock(t, pageID, mode) ==
    /\ pc[t] = "idle" /\ mu = NoThread
    /\ mu' = t
    /\ pc' = [pc EXCEPT ![t] = "fetch"]
    /\ pin' = [pin EXCEPT ![t] = [pageID |-> pageID, frameID |-> NoFrame, mode |-> mode,
                                       new |-> FALSE]]
    /\ ret' = NoRet
    /\ UNCHANGED <<dm, durable, pool, latch, wstate, latest, lax, diskVars, restVars>>

\* FetchPage: the critical section, up to p.mu.Unlock().
FetchPageBody(t) ==
    /\ pc[t] = "fetch"
    /\ \E wOk \in IOOutcomes, rOk \in IOOutcomes :
         LET r == poolFetchPage(pool, dm, pin[t].pageID, pin[t].mode, wOk, rOk)
         IN  /\ pool' = r.pool
             /\ dm' = r.dm
             /\ pin' = [pin EXCEPT ![t] = r.pin]
             /\ ret' = [t |-> t, op |-> IF r.hit THEN "FetchPageHit" ELSE "FetchPage", err |-> r.err,
                        writes |-> {}]
             /\ pc' = [pc EXCEPT ![t] = IF r.err = "nil" THEN "latch" ELSE "idle"]
    /\ mu' = NoThread
    /\ UNCHANGED <<durable, latch, wstate, latest, lax, diskVars, restVars>>

\* latch.Lock() after the mutex is released: take the writer side, and hold
\* the latch at once when no reader is inside.
LatchLock(t) ==
    /\ pc[t] = "latch" /\ pin[t].mode = LatchExclusive
    /\ latchCanLock(latch[pin[t].frameID])
    /\ latch' = [latch EXCEPT ![pin[t].frameID] = latchLock(@, t)]
    /\ pc' = [pc EXCEPT ![t] = IF latchLocked(latch[pin[t].frameID]) THEN "held" ELSE "wlock"]
    /\ UNCHANGED <<dm, durable, pool, mu, pin, wstate, latest, lax, diskVars, restVars>>
    /\ ret' = NoRet

\* latch.Lock() returns once the last reader has left.
LatchLockAcquire(t) ==
    /\ pc[t] = "wlock"
    /\ latchLocked(latch[pin[t].frameID])
    /\ pc' = [pc EXCEPT ![t] = "held"]
    /\ UNCHANGED <<dm, durable, pool, mu, latch, pin, wstate, latest, lax, diskVars, restVars>>
    /\ ret' = NoRet

\* latch.RLock(): admitted, or parked behind a writer.
LatchRLock(t) ==
    /\ pc[t] = "latch" /\ pin[t].mode = LatchShared
    /\ IF latchCanRLock(latch[pin[t].frameID])
       THEN /\ latch' = [latch EXCEPT ![pin[t].frameID] = latchRLock(@, t)]
            /\ pc' = [pc EXCEPT ![t] = "held"]
       ELSE /\ pc' = [pc EXCEPT ![t] = "rblocked"]
            /\ UNCHANGED latch
    /\ UNCHANGED <<dm, durable, pool, mu, pin, wstate, latest, lax, diskVars, restVars>>
    /\ ret' = NoRet

\* The holder of an Exclusive pin writes the page bytes (copy into Bytes()).
\* Every write of a page stores an image that page never held before, so
\* that a stale image is told from the latest one.
WriteBytes(t, img) ==
    /\ pc[t] = "held" /\ pin[t].mode = LatchExclusive
    /\ img = latest[pin[t].pageID] + 1
    /\ pool' = [pool EXCEPT !.frames[pin[t].frameID].data = img]
    /\ latest' = [latest EXCEPT ![pin[t].pageID] = img]
    /\ wstate' = [wstate EXCEPT ![t].pending = TRUE]
    /\ UNCHANGED <<dm, durable, mu, latch, pc, pin, lax, diskVars, restVars>>
    /\ ret' = NoRet

\* pagePin.MarkDirty, by the holder of an Exclusive pin.
MarkDirty(t) ==
    /\ pc[t] = "held" /\ pin[t].mode = LatchExclusive /\ mu = NoThread
    /\ pool' = poolMarkDirty(pool, pin[t].frameID)
    /\ wstate' = [wstate EXCEPT ![t] = [pending |-> FALSE, marked |-> TRUE]]
    /\ UNCHANGED <<dm, durable, mu, latch, pc, pin, latest, lax, diskVars, restVars>>
    /\ ret' = NoRet

\* pagePin.Unpin: release the latch.  A caller that wrote the page has
\* called MarkDirty at some point while it held the pin.
UnpinLatch(t) ==
    /\ pc[t] = "held"
    /\ wstate[t].pending => wstate[t].marked
    /\ LET f == pin[t].frameID
           blocked == {u \in Threads : pc[u] = "rblocked" /\ pin[u].frameID = f}
       IN  /\ latch' = [latch EXCEPT ![f] = IF pin[t].mode = LatchExclusive
                                              THEN latchUnlock(@, blocked)
                                              ELSE latchRUnlock(@, t)]
           /\ pc' = [u \in Threads |-> IF u = t THEN "unpin"
                                       ELSE IF u \in blocked /\ u \in latch'[f].r THEN "held"
                                       ELSE pc[u]]
    /\ lax' = (lax \/ wstate[t].pending)
    /\ wstate' = [wstate EXCEPT ![t] = [pending |-> FALSE, marked |-> FALSE]]
    /\ UNCHANGED <<dm, durable, pool, mu, pin, latest, diskVars, restVars>>
    /\ ret' = NoRet

\* pagePin.Unpin: p.pool.mu.Lock().
UnpinLock(t) ==
    /\ pc[t] = "unpin" /\ mu = NoThread
    /\ mu' = t
    /\ pc' = [pc EXCEPT ![t] = "unpinmu"]
    /\ UNCHANGED <<dm, durable, pool, latch, pin, wstate, latest, lax, diskVars, restVars>>
    /\ ret' = NoRet

\* pagePin.Unpin: the critical section.
UnpinBody(t) ==
    /\ pc[t] = "unpinmu"
    /\ pool' = poolUnpin(pool, pin[t].frameID)
    /\ mu' = NoThread
    /\ pc' = [pc EXCEPT ![t] = "idle"]
    /\ pin' = [pin EXCEPT ![t] = NoPin]
    /\ UNCHANGED <<dm, durable, latch, wstate, latest, lax, diskVars, restVars>>
    /\ ret' = NoRet

\* FlushAllPages: p.mu.Lock().
FlushLock(t) ==
    /\ pc[t] = "idle" /\ mu = NoThread
    /\ mu' = t
    /\ pc' = [pc EXCEPT ![t] = "flush"]
    /\ ret' = NoRet
    /\ UNCHANGED <<dm, durable, pool, latch, pin, wstate, latest, lax, diskVars, restVars>>

\* FlushAllPages: the loop over the frames, then the deferred Unlock.
FlushBody(t) ==
    /\ pc[t] = "flush"
    /\ \E failAt \in FrameIds \cup {NoFrame} :
         LET r == poolFlushAllPages(pool, dm, failAt)
         IN  /\ pool' = r.pool
             /\ dm' = r.dm
             /\ ret' = [t |-> t, op |-> "FlushAllPages", err |-> r.err, writes |-> r.writes]
    /\ mu' = NoThread
    /\ pc' = [pc EXCEPT ![t] = "idle"]
    /\ UNCHANGED <<durable, latch, pin, wstate, latest, lax, diskVars, restVars>>

\* pool.Close: FlushAllPages takes p.mu.
CloseLock(t) ==
    /\ pc[t] = "idle" /\ mu = NoThread /\ dm.open
    /\ mu' = t
    /\ pc' = [pc EXCEPT ![t] = "close"]
    /\ ret' = NoRet
    /\ UNCHANGED <<dm, durable, pool, latch, pin, wstate, latest, lax, diskVars, restVars>>

\* pool.Close: FlushAllPages runs and returns; its error ends Close.
CloseFlush(t) ==
    /\ pc[t] = "close"
    /\ \E failAt \in FrameIds \cup {NoFrame} :
         LET r == poolFlushAllPages(pool, dm, failAt)
         IN  /\ pool' = r.pool
             /\ dm' = r.dm
             /\ ret' = [t |-> t, op |-> "FlushAllPages", err |-> r.err, writes |-> r.writes]
             /\ pc' = [pc EXCEPT ![t] = IF r.err = "nil" THEN "closesync" ELSE "idle"]
    /\ mu' = NoThread
    /\ UNCHANGED <<durable, latch, pin, wstate, latest, lax, diskVars, restVars>>

\* pool.Close: p.pm.Sync(); its error ends Close.
CloseSync(t) ==
    /\ pc[t] = "closesync"
    /\ \E ioOk \in IOOutcomes :
         LET r == Sync(dm, durable, ioOk)
         IN  /\ durable' = r.durable
             /\ pc' = [pc EXCEPT ![t] = IF r.err THEN "idle" ELSE "closefile"]
             /\ ret' = IF r.err THEN [t |-> t, op |-> "Close", err |-> "ErrSync", writes |-> {}]
                       ELSE NoRet
    /\ UNCHANGED <<dm, pool, mu, latch, pin, wstate, latest, lax, diskVars, restVars>>

\* pool.Close: p.pm.Close().
CloseFile(t) ==
    /\ pc[t] = "closefile"
    /\ dm' = Close(dm)
    /\ pc' = [pc EXCEPT ![t] = "idle"]
    /\ ret' = [t |-> t, op |-> "Close", err |-> IF dm.open THEN "nil" ELSE "ErrClose",
               writes |-> {}]
    /\ UNCHANGED <<durable, pool, mu, latch, pin, wstate, latest, lax, diskVars, restVars>>

\* The calls of NewPage, FetchPage, MarkDirty, Unpin and FlushAllPages.
NextPins ==
    \E t \in Threads :
        \/ NewPageLock(t)
        \/ NewPageBody(t)
        \/ \E pageID \in PageIds, mode \in {LatchShared, LatchExclusive} :
               FetchPageLock(t, pageID, mode)
        \/ FetchPageBody(t)
        \/ LatchLock(t)
        \/ LatchLockAcquire(t)
        \/ LatchRLock(t)
        \/ \E img \in Images \ {Zero} : WriteBytes(t, img)
        \/ MarkDirty(t)
        \/ UnpinLatch(t)
        \/ UnpinLock(t)
        \/ UnpinBody(t)
        \/ FlushLock(t)
        \/ FlushBody(t)

Next ==
    \/ NextPins
    \/ \E t \in Threads :
          \/ CloseLock(t)
          \/ CloseFlush(t)
          \/ CloseSync(t)
          \/ CloseFile(t)

Spec == Init /\ [][Next]_vars

\* Scheduling: a thread inside a call keeps running; sync.Mutex and
\* sync.RWMutex hand the lock to a waiter that keeps being passed over
\* (starvation mode), which is strong fairness of the acquiring steps.  A
\* holder of a pin goes on to Unpin.  Nothing obliges a thread to start a
\* new call.
Fairness ==
    \A t \in Threads :
        /\ WF_vars(NewPageBody(t))
        /\ WF_vars(FetchPageBody(t))
        /\ WF_vars(FlushBody(t))
        /\ WF_vars(UnpinBody(t))
        /\ WF_vars(LatchRLock(t))
        /\ WF_vars(LatchLockAcquire(t))
        /\ SF_vars(LatchLock(t))
        /\ SF_vars(UnpinLock(t))
        /\ SF_vars(MarkDirty(t) /\ wstate[t].pending)
        /\ WF_vars(UnpinLatch(t))

\* The pool in use, before any Close, under that scheduling.
FairSpec == Init /\ [][NextPins]_vars /\ Fairness

\* --------------------------------------------------- disk manager: actions
\* diskManager.mtx.  RLock()..RUnlock() only brackets the read of nextPage
\* and is one step, so no state has a reader inside.
NoDiskOp == [pageID |-> 0, len |-> PageSize, img |-> Zero]

NoDiskRet ==
    [t |-> NoThread, op |-> "none", err |-> "nil", pageID |-> 0, len |-> PageSize,
     arg |-> Zero, img |-> Zero]

\* What the call with arguments o returns: the error and the caller's buffer
\* (arg: its contents at the call, img: its contents at the return).
DiskRet(t, op, err, o, img) ==
    [t |-> t, op |-> op, err |-> err, pageID |-> o.pageID, len |-> o.len,
     arg |-> o.img, img |-> img]

mtxCanLock_always(m) == TRUE
mtxCanLock(m) == m = NoThread
mtxCanRLock(m) == m = NoThread

\* AllocatePage: dm.mtx.Lock() and nextPage := dm.nextPage.
AllocLock(t) ==
    /\ dpc[t] = "idle" /\ dm.open /\ mtxCanLock(dmMtx) /\ dm.nextPage < MaxPages
    /\ dmMtx' = t
    /\ dop' = [dop EXCEPT ![t] = [pageID |-> dm.nextPage, len |-> PageSize, img |-> Zero]]
    /\ dpc' = [dpc EXCEPT ![t] = "alloc"]
    /\ dret' = NoDiskRet
    /\ UNCHANGED <<dm, durable, hist, poolVars, restVars>>

\* AllocatePage: dm.writePage(nextPage, dm.zeroPage); on an error the
\* deferred Unlock runs and the call returns.
AllocWrite(t) ==
    /\ dpc[t] = "alloc"
    /\ \E ioOk \in IOOutcomes :
         LET w == writePage(dm, dop[t].pageID, Zero, ioOk)
         IN  /\ dm' = w.dm
             /\ dpc' = [dpc EXCEPT ![t] = IF w.err THEN "idle" ELSE "allocinc"]
             /\ dmMtx' = IF w.err /\ dmMtx = t THEN NoThread ELSE dmMtx
             /\ dret' = IF w.err THEN DiskRet(t, "AllocatePage", "ErrWrite", dop[t], Zero) ELSE NoDiskRet
             /\ dop' = [dop EXCEPT ![t] = IF w.err THEN NoDiskOp ELSE @]
    /\ UNCHANGED <<durable, hist, poolVars, restVars>>

\* AllocatePage: dm.nextPage++, the deferred Unlock, return nextPage.
AllocIncrement(t) ==
    /\ dpc[t] = "allocinc"
    /\ dm' = [dm EXCEPT !.nextPage = @ + 1]
    /\ dmMtx' = IF dmMtx = t THEN NoThread ELSE dmMtx
    /\ hist' = [hist EXCEPT !.ids = Append(@, dop[t].pageID)]
    /\ dpc' = [dpc EXCEPT ![t] = "idle"]
    /\ dret' = DiskRet(t, "AllocatePage", "nil", dop[t], Zero)
    /\ dop' = [dop EXCEPT ![t] = NoDiskOp]
    /\ UNCHANGED <<durable, poolVars, restVars>>

\* A caller enters ReadPage(pageID, p) or WritePage(pageID, p) with a
\* buffer of len bytes that holds img; the length check comes first and
\* touches nothing shared.
DiskCall(t, op, pageID, len, img) ==
    /\ dpc[t] = "idle" /\ dm.open
    /\ LET o == [pageID |-> pageID, len |-> len, img |-> img]
       IN  IF wrongSize(len)
           THEN /\ dret' = DiskRet(t, op, "ErrPageSize", o, img)
                /\ UNCHANGED <<dop, dpc>>
           ELSE /\ dop' = [dop EXCEPT ![t] = o]
                /\ dpc' = [dpc EXCEPT ![t] = op]
                /\ dret' = NoDiskRet
    /\ UNCHANGED <<dm, durable, dmMtx, hist, poolVars, restVars>>

\* ReadPage and WritePage: the read of dm.nextPage under RLock and the
\* bounds check on the value read.
DiskCheck(t, op, next) ==
    /\ dpc[t] = op
    /\ mtxCanRLock(dmMtx)
    /\ IF outOfBounds(dop[t].pageID, dm.nextPage)
       THEN /\ dpc' = [dpc EXCEPT ![t] = "idle"]
            /\ dret' = DiskRet(t, op, "ErrOutOfBounds", dop[t], dop[t].img)
            /\ dop' = [dop EXCEPT ![t] = NoDiskOp]
       ELSE /\ dpc' = [dpc EXCEPT ![t] = next]
            /\ dret' = NoDiskRet
            /\ UNCHANGED dop
    /\ UNCHANGED <<dm, durable, dmMtx, hist, poolVars, restVars>>

ReadPageCheck(t) == DiskCheck(t, "ReadPage", "readio")

WritePageCheck(t) == DiskCheck(t, "WritePage", "writeio")

\* ReadPage: dm.file.ReadAt(p, offset).
ReadPageIO(t) ==
    /\ dpc[t] = "readio"
    /\ \E ioOk \in IOOutcomes :
         LET r == IF dm.open /\ ioOk
                  THEN ReadAt(dm.file, calculateOffsetByPageID(dop[t].pageID))
                  ELSE [err |-> TRUE, img |-> Zero]
         IN  dret' = DiskRet(t, "ReadPage", IF r.err THEN "ErrRead" ELSE "nil", dop[t],
                            IF r.err THEN dop[t].img ELSE r.img)
    /\ dop' = [dop EXCEPT ![t] = NoDiskOp]
    /\ dpc' = [dpc EXCEPT ![t] = "idle"]
    /\ UNCHANGED <<dm, durable, dmMtx, hist, poolVars, restVars>>

\* WritePage: dm.writePage(pageID, p).
WritePageIO(t) ==
    /\ dpc[t] = "writeio"
    /\ \E ioOk \in IOOutcomes :
         LET w == writePage(dm, dop[t].pageID, dop[t].img, ioOk)
         IN  /\ dm' = w.dm
             /\ hist' = IF w.err THEN hist
                        ELSE [hist EXCEPT !.written[dop[t].pageID] = dop[t].img,
                                          !.writtenGen[dop[t].pageID] = hist.gen]
             /\ dret' = DiskRet(t, "WritePage", IF w.err THEN "ErrWrite" ELSE "nil", dop[t],
                                 dop[t].img)
    /\ dop' = [dop EXCEPT ![t] = NoDiskOp]
    /\ dpc' = [dpc EXCEPT ![t] = "idle"]
    /\ UNCHANGED <<durable, dmMtx, poolVars, restVars>>

\* Close: dm.file.Close().  Calls still in flight fail at their I/O.
DiskClose(t) ==
    /\ dpc[t] = "idle" /\ dm.open
    /\ dm' = Close(dm)
    /\ dret' = DiskRet(t, "Close", "nil", NoDiskOp, Zero)
    /\ UNCHANGED <<durable, dpc, dop, dmMtx, hist, poolVars, restVars>>

\* NewDiskManager on the same path, once the calls on the closed manager
\* have returned.
DiskReopen ==
    /\ ~dm.open /\ hist.gen < MaxReopens
    /\ \A t \in Threads : dpc[t] = "idle"
    /\ dm' = NewDiskManager(dm.file)
    /\ dmMtx' = NoThread
    /\ hist' = [hist EXCEPT !.gen = @ + 1]
    /\ dret' = NoDiskRet
    /\ UNCHANGED <<durable, dpc, dop, poolVars, restVars>>

NextDisk ==
    \/ \E t \in Threads :
          \/ AllocLock(t)
          \/ AllocWrite(t)
          \/ AllocIncrement(t)
          \/ \E op \in {"ReadPage", "WritePage"}, pageID \in PageIds,
                 len \in BufLens, img \in Images :
                 DiskCall(t, op, pageID, len, img)
          \/ ReadPageCheck(t)
          \/ WritePageCheck(t)
          \/ ReadPageIO(t)
          \/ WritePageIO(t)
          \/ DiskClose(t)
    \/ DiskReopen

SpecDisk == Init /\ [][NextDisk]_vars

\* ------------------------------------------------------ buffer pool: claims
\* t holds a pin: FetchPage/NewPage has returned it and Unpin is not called.
Holding(t) == pc[t] = "held"

\* The lifetime of t's pin: from the increment of pinCount under the mutex
\* to the decrement in Unpin.
Pinned(t) == pc[t] \in {"latch", "wlock", "rblocked", "held", "unpin", "unpinmu"}

HoldersOf(pageID, mode) ==
    {t \in Threads : Holding(t) /\ pin[t].pageID = pageID /\ pin[t].mode = mode}

Mapped(pageID) == pool.pageToFrameMap[pageID] # NoFrame

Allocated == 0..(dm.nextPage - 1)

OnDisk(pageID) == dm.file[pageID + 1]

\* C1: for each page at most one thread holds an Exclusive pin, and no
\* Shared pin is held together with an Exclusive one.
C1_Exclusivity ==
    \A pageID \in PageIds :
        /\ Cardinality(HoldersOf(pageID, LatchExclusive)) <= 1
        /\ HoldersOf(pageID, LatchExclusive) # {} => HoldersOf(pageID, LatchShared) = {}

\* C1 witness: an Exclusive pin is held while another thread that asked for
\* the same page is kept out at the latch.
C1_Witness ==
    \E t \in Threads, u \in Threads :
        /\ t # u /\ Holding(t) /\ pin[t].mode = LatchExclusive
        /\ pc[u] \in {"latch", "rblocked"} /\ pin[u].pageID = pin[t].pageID

\* C2: for the whole lifetime of a pin its frame stays mapped to the pin's
\* page, keeps a positive pinCount and is no eviction candidate.
C2_PinnedNeverEvicted ==
    \A t \in Threads :
        Pinned(t) =>
            /\ pool.pageToFrameMap[pin[t].pageID] = pin[t].frameID
            /\ pool.frames[pin[t].frameID].pageID = pin[t].pageID
            /\ pool.frames[pin[t].frameID].pinCount > 0
            /\ \A i \in 1..Len(pool.replacer.list) : pool.replacer.list[i] # pin[t].frameID

\* C2 witness: a thread is between p.mu.Unlock() and the latch while another
\* thread is inside findFreeFrame's caller with no free frame left.
C2_Witness ==
    \E t \in Threads, u \in Threads :
        /\ pc[t] \in {"latch", "wlock", "rblocked"}
        /\ pc[u] = "newpage"
        /\ Len(pool.freeFrameIDs) = 0

\* C3: when every write under a pin is followed by MarkDirty before Unpin, a
\* pin shows the image last written to its page, and a page that is not
\* resident has that image on disk.
C3_ReadThrough ==
    ~lax =>
        /\ \A t \in Threads :
              Holding(t) => pool.frames[pin[t].frameID].data = latest[pin[t].pageID]
        /\ \A pageID \in Allocated : ~Mapped(pageID) => OnDisk(pageID) = latest[pageID]

\* C3 witness: a miss of FetchPage has just loaded a page that was written
\* before and evicted since.
C3_Witness ==
    /\ ~lax /\ ret.op = "FetchPage" /\ ret.err = "nil"
    /\ pc[ret.t] = "latch" /\ latest[pin[ret.t].pageID] # Zero

\* C4 (as claimed): wherever MarkDirty was called during the pin, a page that
\* has left the pool has its latest image on disk.
C4_NoLostUpdate ==
    \A pageID \in Allocated : ~Mapped(pageID) => OnDisk(pageID) = latest[pageID]

\* t is inside a call of the pool that has not returned.
InCall(t) == pc[t] \in {"newpage", "fetch", "flush", "latch", "wlock", "rblocked", "unpin", "unpinmu"}

\* t waits for the pool mutex or for a frame latch.
Blocked(t) ==
    \/ pc[t] = "unpin" /\ mu # NoThread
    \/ pc[t] = "latch" /\ pin[t].mode = LatchExclusive /\ ~latchCanLock(latch[pin[t].frameID])
    \/ pc[t] = "wlock" /\ ~latchLocked(latch[pin[t].frameID])
    \/ pc[t] = "rblocked"

\* C5: no state has every thread blocked, and every call returns.
C5_NoDeadlock ==
    /\ [](\E t \in Threads : ~Blocked(t))
    /\ \A t \in Threads : InCall(t) ~> ~InCall(t)

\* C5 witness: a writer has announced itself at a frame latch and waits for
\* a reader that holds a Shared pin on the frame.
C5_Witness ==
    \E t \in Threads, u \in Threads :
        /\ pc[t] = "wlock" /\ Blocked(t)
        /\ Holding(u) /\ pin[u].mode = LatchShared /\ pin[u].frameID = pin[t].frameID

\* C6 (as claimed): NewPage and FetchPage return ErrBufferPoolFull only when
\* every frame is pinned.
C6_FullOnlyWhenAllPinned ==
    [][ret'.err = "ErrBufferPoolFull" => \A f \in FrameIds : pool.frames[f].pinCount > 0]_vars

\* C7: a FlushAllPages that returns nil has passed the bytes of every frame
\* that was dirty to WritePage under the frame's page id, has cleared the
\* flags, and has not synced.
C7_FlushDurable ==
    [][(ret'.op = "FlushAllPages" /\ ret'.err = "nil") =>
          /\ \A f \in FrameIds :
                pool.frames[f].dirty =>
                    /\ <<pool.frames[f].pageID, pool.frames[f].data>> \in ret'.writes
                    /\ OnDisk(pool.frames[f].pageID)' = pool.frames[f].data
                    /\ ~pool'.frames[f].dirty
          /\ durable' = durable]_vars

\* C7 witness: FlushAllPages has just returned nil after writing a page.
C7_Witness ==
    /\ ret.op = "FlushAllPages" /\ ret.err = "nil" /\ ret.writes # {}
    /\ \A w \in ret.writes : OnDisk(w[1]) = w[2]

\* ----------------------------------------------------- disk manager: claims
\* The ids the successful AllocatePage calls have returned, in return order.
ReturnedIds == {hist.ids[i] : i \in 1..Len(hist.ids)}

\* No AllocatePage is between its zero-fill and its increment.
NoAllocMidway == \A t \in Threads : dpc[t] # "allocinc"

\* The image the last successful WritePage(pageID, _) passed, if any.
WrittenTo(pageID) == hist.written[pageID] # NoImage

\* C8: the N successful AllocatePage calls have returned 0..N-1, each once;
\* between allocations the file is PageSize * N bytes long; an allocated page
\* holds zeros until a WritePage to it succeeds, and the image of a WritePage
\* is never overwritten by the zero-fill of an allocation.
C8_AllocDense ==
    /\ ReturnedIds = 0..(Len(hist.ids) - 1)
    /\ Cardinality(ReturnedIds) = Len(hist.ids)
    /\ NoAllocMidway => getFileSize(dm.file) = PageSize * Len(hist.ids)
    /\ \A pageID \in ReturnedIds :
          /\ ReadAt(dm.file, calculateOffsetByPageID(pageID)).err = FALSE
          /\ OnDisk(pageID) = IF WrittenTo(pageID) THEN hist.written[pageID] ELSE Zero

\* C8 witness: AllocatePage has just returned page 1 while another thread is
\* inside a call, after the owner of page 0 wrote a non-zero image to it.
C8_Witness ==
    /\ dret.op = "AllocatePage" /\ dret.err = "nil" /\ dret.pageID = 1
    /\ WrittenTo(0) /\ hist.written[0] # Zero
    /\ \E u \in Threads : u # dret.t /\ dpc[u] # "idle"

\* C9: a ReadPage or WritePage that returns with a buffer of the wrong
\* length or a page id at or beyond nextPage returns an error, leaves the
\* file and nextPage as they were and leaves the caller's buffer unwritten.
C9_RejectedNoEffect ==
    [][(/\ dret'.t \in Threads
        /\ dret'.op \in {"ReadPage", "WritePage"}
        /\ (dret'.len # PageSize \/ dret'.pageID >= dm.nextPage))
       => (/\ dret'.err \in {"ErrPageSize", "ErrOutOfBounds"}
           /\ dret'.img = dret'.arg
           /\ dm' = dm)]_vars

\* C9 witness: ReadPage of the first page id past the allocated ones, with
\* a buffer of the right length that holds a non-zero image, was rejected.
C9_Witness ==
    /\ dret.op = "ReadPage" /\ dret.err = "ErrOutOfBounds"
    /\ dm.nextPage > 0 /\ dret.pageID = dm.nextPage
    /\ dret.len = PageSize /\ dret.arg # Zero /\ dret.img = dret.arg

\* C10: a ReadPage that succeeds on a page yields the image of the last
\* successful WritePage to that page, and every page written so far is in
\* bounds of an open disk manager, the reopened one included.
C10_RoundTrip ==
    /\ (dret.op = "ReadPage" /\ dret.err = "nil" /\ WrittenTo(dret.pageID))
          => dret.img = hist.written[dret.pageID]
    /\ dm.open => \A pageID \in PageIds : WrittenTo(pageID) => pageID < dm.nextPage

\* C10 witness: after a reopen ReadPage has returned the non-zero image
\* written to a page before the Close, while another page holds a different
\* image.
C10_Witness ==
    /\ dret.op = "ReadPage" /\ dret.err = "nil" /\ dret.img # Zero
    /\ WrittenTo(dret.pageID) /\ hist.writtenGen[dret.pageID] < hist.gen
    /\ dret.img # dret.arg
    /\ \E q \in PageIds : WrittenTo(q) /\ hist.written[q] # dret.img

\* ----------------------------------------------------- slotted page: calls
\* A panic ends the program: no call follows it.
PageCallable == spGhost.ops < MaxPageOps /\ spRet.err # "panic"

\* The call names no existing slot, or a tuple no uint16 can measure.
noSlot(slotID) == slotID >= slotCount(spData)

\* The tuple of the n-th call is filled with the byte n: the bytes of two
\* inserted tuples always differ.
PageInsert(len) ==
    /\ PageCallable
    /\ LET t == [len |-> len, fill |-> spGhost.ops + 1]
           r == InsertTuple(spData, t)
       IN  /\ spData' = r.data
           /\ spRet' = [op |-> "InsertTuple", err |-> r.err, slotID |-> r.slotID, arg |-> t,
                        tuple |-> <<>>]
           /\ spLive' = IF r.err = "nil" /\ r.slotID \in SlotArgs
                        THEN [spLive EXCEPT ![r.slotID] = t] ELSE spLive
    /\ spGhost' = [ops |-> spGhost.ops + 1, misuse |-> spGhost.misuse \/ len >= Wrap16 - slotSize]
    /\ UNCHANGED <<dm, durable, poolVars, diskVars, kvVars, execVars, atomVars, slotIO, lruVars>>

PageDelete(slotID) ==
    /\ PageCallable
    /\ LET r == DeleteTuple(spData, slotID)
       IN  /\ spData' = r.data
           /\ spRet' = [op |-> "DeleteTuple", err |-> r.err, slotID |-> slotID, arg |-> NoTuple,
                        tuple |-> <<>>]
    /\ spGhost' = [ops |-> spGhost.ops + 1, misuse |-> spGhost.misuse \/ noSlot(slotID)]
    /\ UNCHANGED <<dm, durable, poolVars, diskVars, kvVars, execVars, atomVars, slotIO, lruVars, spLive>>

PageSetUnused(slotID) ==
    /\ PageCallable
    /\ LET r == SetTupleAsUnused(spData, slotID)
       IN  /\ spData' = r.data
           /\ spRet' = [op |-> "SetTupleAsUnused", err |-> r.err, slotID |-> slotID,
                        arg |-> NoTuple, tuple |-> <<>>]
           /\ spLive' = IF r.err = "nil" THEN [spLive EXCEPT ![slotID] = NoTuple] ELSE spLive
    /\ spGhost' = [ops |-> spGhost.ops + 1, misuse |-> spGhost.misuse \/ noSlot(slotID)]
    /\ UNCHANGED <<dm, durable, poolVars, diskVars, kvVars, execVars, atomVars, slotIO, lruVars>>

PageGet(slotID) ==
    /\ PageCallable
    /\ LET r == GetTuple(spData, slotID)
       IN  spRet' = [op |-> "GetTuple", err |-> r.err, slotID |-> slotID, arg |-> NoTuple,
                     tuple |-> r.tuple]
    /\ spGhost' = [ops |-> spGhost.ops + 1, misuse |-> spGhost.misuse \/ noSlot(slotID)]
    /\ UNCHANGED <<dm, durable, poolVars, diskVars, kvVars, execVars, atomVars, slotIO, lruVars, spData, spLive>>

NextPage ==
    \/ \E len \in TupleLens : PageInsert(len)
    \/ \E slotID \in SlotArgs :
          \/ PageDelete(slotID)
          \/ PageSetUnused(slotID)
          \/ PageGet(slotID)

SpecPage == Init /\ [][NextPage]_vars

\* The page after seven calls on existing slots of a fresh page:
\* InsertTuple of 1 byte twice (slots 0 and 1), SetTupleAsUnused of both,
\* InsertTuple of 4 bytes (compacts, slot 0), DeleteTuple(1), InsertTuple of
\* 1 byte (slot 2).  slot_count is 3, free_space_pointer 10.
StalePage == <<3, 0, 10, 0, 16, 0, 24, 0, 5, 0, 7, 0, 4, 0, 20, 0>>

InitStalePage ==
    /\ InitStorage /\ slotIO = NoSlotIO /\ InitLRU /\ InitKV /\ InitAtomic
    /\ spData = StalePage
    /\ spLive = [s \in SlotArgs |-> IF s = 0 THEN [len |-> 4, fill |-> 5]
                                    ELSE IF s = 2 THEN [len |-> 1, fill |-> 7]
                                    ELSE NoTuple]
    /\ spRet = [op |-> "InsertTuple", err |-> "nil", slotID |-> 2,
                arg |-> [len |-> 1, fill |-> 7], tuple |-> <<>>]
    /\ spGhost = [ops |-> MaxPageOps - MaxStaleOps, misuse |-> FALSE]

SpecStalePage == InitStalePage /\ [][NextPage]_vars

\* ------------------------------------------------------- LRU replacer: calls
InList(r, frameID) == \E i \in 1..Len(r.list) : r.list[i] = frameID

LruCallable == lruGhost.clock < MaxLruOps

LruPin(frameID) ==
    /\ LruCallable
    /\ lru' = lruPin(lru, frameID)
    /\ lruRet' = [op |-> "Pin", frameID |-> frameID, ok |-> TRUE]
    /\ lruGhost' = [lruGhost EXCEPT !.clock = @ + 1,
                                    !.since[frameID] = 0,
                                    !.pinned = @ \cup {frameID}]
    /\ UNCHANGED <<dm, durable, poolVars, diskVars, kvVars, execVars, atomVars, slotIO, pageVars>>

LruUnpin(frameID) ==
    /\ LruCallable
    /\ lru' = lruUnpin(lru, frameID)
    /\ lruRet' = [op |-> "Unpin", frameID |-> frameID, ok |-> TRUE]
    /\ lruGhost' = [lruGhost EXCEPT !.clock = @ + 1,
                                    !.since[frameID] = lruGhost.clock + 1,
                                    !.pinned = @ \ {frameID},
                                    !.disciplined = @ /\ ~InList(lru, frameID)]
    /\ UNCHANGED <<dm, durable, poolVars, diskVars, kvVars, execVars, atomVars, slotIO, pageVars>>

LruEvict ==
    /\ LruCallable
    /\ LET e == lruEvict(lru)
       IN  /\ lru' = e.replacer
           /\ lruRet' = [op |-> "Evict", frameID |-> e.frameID, ok |-> e.ok]
           /\ lruGhost' = [lruGhost EXCEPT !.clock = @ + 1,
                                           !.since = IF e.ok THEN [@ EXCEPT ![e.frameID] = 0]
                                                     ELSE @]
    /\ UNCHANGED <<dm, durable, poolVars, diskVars, kvVars, execVars, atomVars, slotIO, pageVars>>

NextLRU ==
    \/ \E frameID \in LruFrames : LruPin(frameID) \/ LruUnpin(frameID)
    \/ LruEvict

SpecLRU == Init /\ [][NextLRU]_vars

\* ------------------------------------------------------------ slot packing
\* One exchange: writeSlot into the first slot of an empty 8-byte page, then
\* unpackSlot of that slot.
InitSlot ==
    /\ InitStorage
    /\ InitPage
    /\ InitLRU
    /\ InitKV
    /\ InitAtomic
    /\ \E offset \in SlotOffsets, length \in SlotLengths, flags \in SlotFlags :
          slotIO = [NoSlotIO EXCEPT !.stage = "input", !.offset = offset,
                                    !.length = length, !.flags = flags]

SlotWrite ==
    /\ slotIO.stage = "input"
    /\ slotIO' = [slotIO EXCEPT !.stage = "written",
                                 !.data = writeSlot(slotIO.offset, slotIO.length, slotIO.flags,
                                                    slotIO.data, headerSize)]
    /\ UNCHANGED <<dm, durable, poolVars, diskVars, kvVars, execVars, atomVars, pageVars, lruVars>>

SlotUnpack ==
    /\ slotIO.stage = "written"
    /\ LET u == unpackSlot(slotIO.data, 0)
       IN  slotIO' = [slotIO EXCEPT !.stage = "unpacked",
                                    !.out = <<u.offset, u.length, u.flags>>]
    /\ UNCHANGED <<dm, durable, poolVars, diskVars, kvVars, execVars, atomVars, pageVars, lruVars>>

NextSlot == SlotWrite \/ SlotUnpack

SpecSlot == InitSlot /\ [][NextSlot]_vars

\* C17: unpackSlot gives back the offset, length and flags handed to
\* writeSlot, and the four bytes written are the little-endian bytes of the
\* word whose bits 17..31 are offset, bits 2..16 length and bits 0..1 flags.
C17_SlotRoundTrip ==
    /\ slotIO.stage = "unpacked" =>
          slotIO.out = <<slotIO.offset, slotIO.length, slotIO.flags>>
    /\ slotIO.stage \in {"written", "unpacked"} =>
          LET lo == (slotIO.length % 16384) * 4 + slotIO.flags
              hi == slotIO.offset * 2 + slotIO.length \div 16384
          IN  SubSeq(slotIO.data, headerSize + 1, headerSize + slotSize)
                = <<lo % Byte, lo \div Byte, hi % Byte, hi \div Byte>>

\* C17 witness: the largest offset, length and flags have made the round
\* trip.
C17_Witness ==
    /\ slotIO.stage = "unpacked"
    /\ slotIO.out = <<MaxSlotField, MaxSlotField, 3>>

\* ------------------------------------------------- key-value engine: calls
KvOther == <<dm, durable, poolVars, diskVars, slotIO, pageVars, lruVars, execVars, atomVars>>

\* A thread calls Set(key, value).
KvSetCall(t, key, value) ==
    /\ kpc[t] = "idle" /\ kvGhost.ops < MaxKvOps
    /\ kpc' = [kpc EXCEPT ![t] = "setlock"]
    /\ kop' = [kop EXCEPT ![t] = [op |-> "Set", key |-> key, value |-> value, ok |-> FALSE]]
    /\ kvGhost' = [kvGhost EXCEPT !.ops = @ + 1]
    /\ UNCHANGED <<kvData, kvMtx, kvRet, KvOther>>

\* Set: kv.mtx.Lock()
KvSetLock(t) ==
    /\ kpc[t] = "setlock" /\ kvCanLock(t)
    /\ kvMtx' = [kvMtx EXCEPT !.w = t]
    /\ kpc' = [kpc EXCEPT ![t] = "setstore"]
    /\ UNCHANGED <<kvData, kop, kvRet, kvGhost, KvOther>>

\* Set: kv.data[string(key)] = value
KvSetStore(t) ==
    /\ kpc[t] = "setstore"
    /\ kvData' = mapStore(kvData, kop[t].key, kop[t].value)
    /\ kpc' = [kpc EXCEPT ![t] = "setunlock"]
    /\ UNCHANGED <<kvMtx, kop, kvRet, kvGhost, KvOther>>

\* Set: return nil, the deferred kv.mtx.Unlock() runs.
KvSetUnlock(t) ==
    /\ kpc[t] = "setunlock"
    /\ kvMtx' = [kvMtx EXCEPT !.w = NoThread]
    /\ kpc' = [kpc EXCEPT ![t] = "idle"]
    /\ kop' = [kop EXCEPT ![t] = NoKvOp]
    /\ kvRet' = [t |-> t, op |-> "Set", key |-> kop[t].key, value |-> kop[t].value,
                 err |-> "nil"]
    /\ kvGhost' = [kvGhost EXCEPT !.done[kop[t].key] = [ok |-> TRUE, v |-> kop[t].value]]
    /\ UNCHANGED <<kvData, KvOther>>

\* A thread calls Get(key).
KvGetCall(t, key) ==
    /\ kpc[t] = "idle" /\ kvGhost.ops < MaxKvOps
    /\ kpc' = [kpc EXCEPT ![t] = "getrlock"]
    /\ kop' = [kop EXCEPT ![t] = [op |-> "Get", key |-> key, value |-> <<>>, ok |-> FALSE]]
    /\ kvGhost' = [kvGhost EXCEPT !.ops = @ + 1]
    /\ UNCHANGED <<kvData, kvMtx, kvRet, KvOther>>

\* Get: kv.mtx.RLock()
KvGetRLock(t) ==
    /\ kpc[t] = "getrlock" /\ kvCanRLock(t)
    /\ kvMtx' = [kvMtx EXCEPT !.r = @ \cup {t}]
    /\ kpc' = [kpc EXCEPT ![t] = "getload"]
    /\ UNCHANGED <<kvData, kop, kvRet, kvGhost, KvOther>>

\* Get: v, ok := kv.data[string(key)]
KvGetLoad(t) ==
    /\ kpc[t] = "getload"
    /\ kop' = [kop EXCEPT ![t].value = mapLoad(kvData, kop[t].key).v,
                          ![t].ok = mapLoad(kvData, kop[t].key).ok]
    /\ kpc' = [kpc EXCEPT ![t] = "getrunlock"]
    /\ UNCHANGED <<kvData, kvMtx, kvRet, kvGhost, KvOther>>

\* Get: return (nil, ErrKeyNotFound) or (v, nil), the deferred
\* kv.mtx.RUnlock() runs.
KvGetRUnlock(t) ==
    /\ kpc[t] = "getrunlock"
    /\ kvMtx' = [kvMtx EXCEPT !.r = @ \ {t}]
    /\ kpc' = [kpc EXCEPT ![t] = "idle"]
    /\ kop' = [kop EXCEPT ![t] = NoKvOp]
    /\ kvRet' = [t |-> t, op |-> "Get", key |-> kop[t].key,
                 value |-> IF kop[t].ok THEN kop[t].value ELSE <<>>,
                 err |-> IF kop[t].ok THEN "nil" ELSE "ErrKeyNotFound"]
    /\ UNCHANGED <<kvData, kvGhost, KvOther>>

NextKV ==
    \E t \in Threads :
        \/ \E key \in KvArgs, value \in KvArgs : KvSetCall(t, key, value)
        \/ KvSetLock(t)
        \/ KvSetStore(t)
        \/ KvSetUnlock(t)
        \/ \E key \in KvArgs : KvGetCall(t, key)
        \/ KvGetRLock(t)
        \/ KvGetLoad(t)
        \/ KvGetRUnlock(t)

SpecKV == Init /\ [][NextKV]_vars

\* -------------------------------------------------------- executor: calls
\* Execute on the command line made of fields in the given layout.  The
\* shell calls it from one goroutine: no other call is inside the engine.
ExecExecute(fields, layout) ==
    /\ exGhost.ops < MaxExecOps
    /\ kvMtx = [w |-> NoThread, r |-> {}]
    /\ LET cmd == commandLine(fields, layout)
           r   == Execute(kvData, cmd)
       IN  /\ kvData' = r.data
           /\ exRet' = [fields |-> fields, cmd |-> cmd, text |-> r.text, err |-> r.err]
    /\ exGhost' = [ops |-> exGhost.ops + 1]
    /\ UNCHANGED <<dm, durable, poolVars, diskVars, slotIO, pageVars, lruVars,
                   kvMtx, kpc, kop, kvRet, kvGhost, atomVars>>

NextExec == \E fields \in FieldLists, layout \in Layouts : ExecExecute(fields, layout)

SpecExec == Init /\ [][NextExec]_vars

\* --------------------------------- disk manager, atomic counter: calls
AtomOther == <<dm, durable, poolVars, diskVars, slotIO, pageVars, lruVars, kvVars, execVars>>

\* AllocatePage: dm.nextPage.Add(1).
AtomAllocAdd(t) ==
    /\ apc[t] = "idle" /\ adm.nextPage < MaxPages
    /\ adm' = [adm EXCEPT !.nextPage = @ + 1]
    /\ aop' = [aop EXCEPT ![t] = [pageID |-> adm.nextPage, img |-> Zero]]
    /\ apc' = [apc EXCEPT ![t] = "allocwrite"]
    /\ aret' = NoAtomRet
    /\ UNCHANGED AtomOther

\* AllocatePage: dm.writePage(nextPage, bufWithZeroBytes) and the return.
AtomAllocWrite(t, ok) ==
    /\ apc[t] = "allocwrite"
    /\ adm' = IF ok THEN [adm EXCEPT !.file = atomWriteAt(@, aop[t].pageID, Zero),
                                     !.filled = @ \cup {aop[t].pageID}]
              ELSE adm
    /\ aret' = [t |-> t, op |-> "AllocatePage", pageID |-> IF ok THEN aop[t].pageID ELSE 0,
                img |-> NoImage, err |-> IF ok THEN "nil" ELSE "ErrAllocate"]
    /\ aop' = [aop EXCEPT ![t] = NoAtomOp]
    /\ apc' = [apc EXCEPT ![t] = "idle"]
    /\ UNCHANGED AtomOther

\* ReadPage with a buffer of PageSize bytes: the bounds check.
AtomReadCheck(t, pageID) ==
    /\ apc[t] = "idle"
    /\ IF atomOutOfBounds(adm, pageID)
       THEN /\ aret' = [t |-> t, op |-> "ReadPage", pageID |-> pageID, img |-> NoImage,
                        err |-> "ErrOutOfBounds"]
            /\ UNCHANGED <<apc, aop>>
       ELSE /\ aret' = NoAtomRet
            /\ aop' = [aop EXCEPT ![t] = [pageID |-> pageID, img |-> NoImage]]
            /\ apc' = [apc EXCEPT ![t] = "readio"]
    /\ UNCHANGED <<adm, AtomOther>>

\* ReadPage: dm.file.ReadAt and the return.
AtomReadIO(t, ok) ==
    /\ apc[t] = "readio"
    /\ LET r == atomReadAt(adm.file, aop[t].pageID, ok)
       IN  aret' = [t |-> t, op |-> "ReadPage", pageID |-> aop[t].pageID, img |-> r.img,
                    err |-> IF r.err THEN "ErrRead" ELSE "nil"]
    /\ aop' = [aop EXCEPT ![t] = NoAtomOp]
    /\ apc' = [apc EXCEPT ![t] = "idle"]
    /\ UNCHANGED <<adm, AtomOther>>

\* WritePage with a buffer of PageSize bytes: the bounds check.
AtomWriteCheck(t, pageID, img) ==
    /\ apc[t] = "idle"
    /\ IF atomOutOfBounds(adm, pageID)
       THEN /\ aret' = [t |-> t, op |-> "WritePage", pageID |-> pageID, img |-> NoImage,
                        err |-> "ErrOutOfBounds"]
            /\ UNCHANGED <<apc, aop>>
       ELSE /\ aret' = NoAtomRet
            /\ aop' = [aop EXCEPT ![t] = [pageID |-> pageID, img |-> img]]
            /\ apc' = [apc EXCEPT ![t] = "writeio"]
    /\ UNCHANGED <<adm, AtomOther>>

\* WritePage: dm.writePage and the return.
AtomWriteIO(t, ok) ==
    /\ apc[t] = "writeio"
    /\ adm' = IF ok THEN [adm EXCEPT !.file = atomWriteAt(@, aop[t].pageID, aop[t].img)]
              ELSE adm
    /\ aret' = [t |-> t, op |-> "WritePage", pageID |-> aop[t].pageID, img |-> NoImage,
                err |-> IF ok THEN "nil" ELSE "ErrWrite"]
    /\ aop' = [aop EXCEPT ![t] = NoAtomOp]
    /\ apc' = [apc EXCEPT ![t] = "idle"]
    /\ UNCHANGED AtomOther

NextAtomic ==
    \E t \in Threads :
        \/ AtomAllocAdd(t)
        \/ \E ok \in IOOutcomes : AtomAllocWrite(t, ok)
        \/ \E pageID \in PageIds : AtomReadCheck(t, pageID)
        \/ \E ok \in IOOutcomes : AtomReadIO(t, ok)
        \/ \E pageID \in PageIds, img \in Images : AtomWriteCheck(t, pageID, img)
        \/ \E ok \in IOOutcomes : AtomWriteIO(t, ok)

SpecAtomic == Init /\ [][NextAtomic]_vars

\* ------------------------------------------------------ slotted page claims
\* The tuple InsertTuple stored in slot s and no SetTupleAsUnused dropped.
Live(s) == spLive[s] # NoTuple

\* C11: every slot whose last InsertTuple stored t, and which was not set
\* Unused since, gives back exactly the bytes of t from GetTuple, as long as
\* every call named an existing slot and a tuple a uint16 can measure.
C11_Retrieval ==
    ~spGhost.misuse =>
        \A s \in SlotArgs :
            Live(s) => GetTuple(spData, s)
                         = [err |-> "nil", tuple |-> tupleBytes(spLive[s], spLive[s].len)]

\* The step is a call of op that names existing slots and measurable tuples
\* only, as every call before it did.
PageStep(op) ==
    /\ spGhost'.ops = spGhost.ops + 1
    /\ spRet'.op = op
    /\ ~spGhost'.misuse

\* What a slot directory entry says and holds: flag, length and the bytes
\* at its offset.
slotView(data, s) ==
    LET u == unpackSlot(data, s)
    IN  [flags   |-> u.flags,
         length  |-> u.length,
         content |-> IF sliceOk(data, u.offset, u.offset + u.length)
                     THEN SubSeq(data, u.offset + 1, u.offset + u.length)
                     ELSE <<"none">>]

NonUnused(data) == {s \in 0..(slotCount(data) - 1) : unpackSlot(data, s).flags # slotUnused}

Preserved(before, after) ==
    /\ slotCount(after) = slotCount(before)
    /\ \A s \in NonUnused(before) : slotView(after, s) = slotView(before, s)

\* C12: when InsertTuple runs compact, every slot that was Used or Dead
\* keeps its id, flag, length and bytes across the compaction, and the
\* compaction leaves slot_count as it was.
C12_CompactionPreserves ==
    [][(PageStep("InsertTuple") /\ runsCompact(spData, spRet'.arg))
          => /\ compact(spData).err = "nil"
             /\ Preserved(spData, compact(spData).data)]_vars

HeaderInv(data) ==
    /\ headerSize + slotSize * slotCount(data) <= freeSpacePointer(data)
    /\ freeSpacePointer(data) <= Len(data)

RegionInv(data) ==
    /\ \A s \in NonUnused(data) :
          LET u == unpackSlot(data, s)
          IN  freeSpacePointer(data) <= u.offset /\ u.offset + u.length <= Len(data)
    /\ \A s1, s2 \in NonUnused(data) :
          s1 # s2 =>
              LET u1 == unpackSlot(data, s1)
                  u2 == unpackSlot(data, s2)
              IN  u1.offset + u1.length <= u2.offset \/ u2.offset + u2.length <= u1.offset

\* C13: after Init and any calls of InsertTuple, DeleteTuple and
\* SetTupleAsUnused on existing slot ids,
\* 4 + 4*slot_count <= free_space_pointer <= len(buffer).
C13_HeaderInvariant == ~spGhost.misuse => HeaderInv(spData)

\* C14: after the same calls, the byte ranges of the Used and Dead slots are
\* pairwise disjoint and lie inside [free_space_pointer, len(buffer)).
C14_RegionInvariant == ~spGhost.misuse => RegionInv(spData)

RECURSIVE SumLengths(_, _)
SumLengths(data, S) ==
    IF S = {} THEN 0
    ELSE LET s == CHOOSE x \in S : TRUE
         IN  unpackSlot(data, s).length + SumLengths(data, S \ {s})

\* The bytes left for a tuple and its slot once every Unused slot's storage
\* is reclaimed, and what a new tuple costs beyond its bytes.
Budget(data) ==
    Len(data) - headerSize - slotSize * slotCount(data) - SumLengths(data, NonUnused(data))

NewSlotCost(data) ==
    IF NonUnused(data) = 0..(slotCount(data) - 1) THEN slotSize ELSE 0

\* C15: on a page satisfying the header and region invariants InsertTuple(t)
\* returns ErrPageFull exactly when len(t) + new_slot_cost exceeds the
\* budget; a failed call leaves the page as it was, any other call returns
\* a slot from which GetTuple reads t.
C15_PageFullDecision ==
    [][(/\ spGhost'.ops = spGhost.ops + 1
        /\ spRet'.op = "InsertTuple"
        /\ HeaderInv(spData) /\ RegionInv(spData))
          => LET t == spRet'.arg
             IN  /\ spRet'.err = "ErrPageFull" <=> t.len + NewSlotCost(spData) > Budget(spData)
                 /\ spRet'.err = "ErrPageFull" => spData' = spData
                 /\ spRet'.err # "ErrPageFull" =>
                       /\ spRet'.err = "nil"
                       /\ GetTuple(spData', spRet'.slotID)
                            = [err |-> "nil", tuple |-> tupleBytes(t, t.len)]]_vars

\* C16: GetTuple(s), DeleteTuple(s) and SetTupleAsUnused(s) with
\* s >= slot_count return the out-of-bounds error and leave every byte of
\* the page as it was.
C16_OutOfRangeRejected ==
    [][(/\ spGhost'.ops = spGhost.ops + 1
        /\ spRet'.op \in {"GetTuple", "DeleteTuple", "SetTupleAsUnused"}
        /\ spRet'.slotID >= slotCount(spData))
          => /\ spRet'.err = "ErrOutOfBounds"
             /\ spData' = spData]_vars

\* ------------------------------------------------------ LRU replacer claims
\* The frames unpinned and neither pinned nor evicted since.
Evictable == {f \in LruFrames : lruGhost.since[f] > 0}

Oldest == CHOOSE f \in Evictable : \A g \in Evictable : lruGhost.since[f] <= lruGhost.since[g]

EvictStep == lruGhost'.clock = lruGhost.clock + 1 /\ lruRet'.op = "Evict"

\* C18: as long as Unpin was only called for frames not in the list, Evict
\* returns the frame whose last Unpin is the oldest among the frames
\* unpinned and neither pinned nor evicted since; when there is none it
\* returns ok=false and leaves the replacer as it was.
C18_EvictionOrder ==
    [][(EvictStep /\ lruGhost.disciplined)
          => IF Evictable # {}
             THEN lruRet'.ok /\ lruRet'.frameID = Oldest
             ELSE ~lruRet'.ok /\ lru' = lru]_vars

\* C18 witness: Evict has returned the oldest of three unpinned frames, then
\* the next oldest, under the discipline.
C18_Witness ==
    /\ lruGhost.disciplined
    /\ lruRet.op = "Evict" /\ lruRet.ok
    /\ Cardinality(Evictable) = 1
    /\ lruGhost.clock = 5

\* C19: after Pin(f) no Evict returns f until Unpin(f) is called again,
\* whatever the calls before, and Pin(f) of a frame not in the list changes
\* nothing.
C19_PinnedNotEvicted ==
    [][/\ EvictStep /\ lruRet'.ok => lruRet'.frameID \notin lruGhost.pinned
       /\ (lruGhost'.clock = lruGhost.clock + 1 /\ lruRet'.op = "Pin"
             /\ ~InList(lru, lruRet'.frameID)) => lru' = lru]_vars

\* ------------------------------------------------------------- frame aliasing
\* C20: no two mapped pages share a frame, a mapped frame's pageID field is
\* the key that maps to it, and the data windows NewPool gives to distinct
\* frames do not overlap.
C20_NoFrameAliasing ==
    /\ \A p1, p2 \in PageIds :
          (Mapped(p1) /\ Mapped(p2) /\ pool.pageToFrameMap[p1] = pool.pageToFrameMap[p2])
              => p1 = p2
    /\ \A p1 \in PageIds :
          Mapped(p1) => pool.frames[pool.pageToFrameMap[p1]].pageID = p1
    /\ \A i, j \in 0..(MaxWindowFrames - 1) :
          i # j => \/ frameWindow(i).right <= frameWindow(j).left
                   \/ frameWindow(j).right <= frameWindow(i).left

\* C20 witness: a page that was written under a pin has left the pool and
\* its frame maps another page.
C20_Witness ==
    \E p1, p2 \in PageIds :
        /\ p1 # p2
        /\ Mapped(p1) /\ pool.frames[pool.pageToFrameMap[p1]].pageID = p1
        /\ p2 \in Allocated /\ ~Mapped(p2) /\ latest[p2] # Zero

\* ---------------------------------------------------------------- pool Close
\* Thread t takes the step of pool.Close that leaves position from.
CloseStep(t, from) == pc[t] = from /\ pc'[t] # from

\* C21: Close runs FlushAllPages, then Sync, then the disk manager's Close;
\* the first of them that fails ends Close with its error and the later
\* ones are not run; the disk manager is not closed while a frame is dirty.
C21_CloseOrdering ==
    [][\A t \in Threads :
          /\ CloseStep(t, "close") =>
                /\ durable' = durable /\ dm'.open = dm.open
                /\ IF ret'.err = "nil" THEN pc'[t] = "closesync"
                   ELSE pc'[t] = "idle" /\ ret'.t = t
          /\ CloseStep(t, "closesync") =>
                /\ dm' = dm
                /\ \/ pc'[t] = "closefile" /\ durable' = dm.file
                   \/ /\ pc'[t] = "idle" /\ durable' = durable
                      /\ ret'.t = t /\ ret'.err = "ErrSync"
          /\ CloseStep(t, "closefile") =>
                /\ ~dm'.open
                /\ ret'.t = t /\ ret'.op = "Close"
                /\ \A f \in FrameIds : ~pool.frames[f].dirty]_vars

\* ------------------------------------------------------- latch versus mutex
\* Thread t is about to take, or waits for, the latch of its frame.
AtLatch(t) == pc[t] \in {"latch", "wlock", "rblocked"}

\* Thread t is inside the latch of frame f, as writer or as reader.
InLatch(t, f) == latch[f].w = t \/ t \in latch[f].r

\* C24: the holder of the pool mutex neither takes nor waits for a frame
\* latch, and a thread in Unpin has left the latch before it waits for or
\* holds the mutex; so the mutex is never held by a thread waiting for a
\* latch.
C24_LatchAfterMutex ==
    /\ [](\A t \in Threads : mu = t => ~AtLatch(t))
    /\ [](\A t \in Threads :
             pc[t] \in {"unpin", "unpinmu"} => \A f \in FrameIds : ~InLatch(t, f))
    /\ [][\A t \in Threads, f \in FrameIds :
             (~InLatch(t, f) /\ InLatch(t, f)') => mu # t /\ mu' # t]_vars

\* C24 witness: a thread has released its latch in Unpin and waits for the
\* mutex, which another thread holds inside FetchPage of the same page.
C24_Witness ==
    \E t, u \in Threads :
        /\ pc[t] = "unpin" /\ mu = u /\ pc[u] = "fetch"
        /\ pin[u].pageID = pin[t].pageID

\* ------------------------------------------------------- write-back of bytes
\* Thread u holds an Exclusive pin on frame f: it may be writing its bytes.
ExclusiveHolder(u, f) ==
    pc[u] = "held" /\ pin[u].mode = LatchExclusive /\ pin[u].frameID = f

\* The frames whose bytes the step of thread t hands to WritePage: the dirty
\* frames FlushAllPages wrote, or the dirty victim of findFreeFrame.
WrittenBack(t) ==
    IF pc[t] \in {"flush", "close"} /\ pc'[t] # pc[t]
    THEN {f \in FrameIds : pool.frames[f].dirty
                             /\ <<pool.frames[f].pageID, pool.frames[f].data>> \in ret'.writes}
    ELSE IF /\ pc[t] \in {"newpage", "fetch"} /\ pc'[t] # pc[t]
            /\ Len(pool.freeFrameIDs) = 0
            /\ pc[t] = "fetch" => ~Mapped(pin[t].pageID)
    THEN {f \in FrameIds : lruEvict(pool.replacer).ok /\ lruEvict(pool.replacer).frameID = f
                             /\ pool.frames[f].dirty}
    ELSE {}

\* C25: no step of FlushAllPages or of the eviction write-back hands a
\* frame's bytes to WritePage while another thread holds an Exclusive pin
\* on that frame.
C25_NoTornWriteBack ==
    [][\A t \in Threads : \A f \in WrittenBack(t) :
          \A u \in Threads \ {t} : ~ExclusiveHolder(u, f)]_vars

\* ------------------------------------------------- allocation before reads
\* ReadPage or WritePage of thread t passes its bounds check in this step.
PassesBounds(t) == dpc[t] \in {"ReadPage", "WritePage"} /\ dpc'[t] \in {"readio", "writeio"}

\* C26: a ReadPage or WritePage passes the bounds check only for a page
\* whose zero-fill write has completed; AllocatePage returns strictly
\* increasing ids in the order of its critical sections; an AllocatePage
\* whose write fails returns an error and leaves nextPage as it was.
C26_AllocBeforeRead ==
    /\ [][\A t \in Threads :
             PassesBounds(t) =>
                 /\ ~ReadAt(dm.file, calculateOffsetByPageID(dop[t].pageID)).err
                 /\ \A u \in Threads : dpc[u] = "alloc" => dop[u].pageID # dop[t].pageID]_vars
    /\ [](\A i \in 1..(Len(hist.ids) - 1) : hist.ids[i] < hist.ids[i + 1])
    /\ [][\A t \in Threads :
             (dpc[t] = "alloc" /\ dpc'[t] = "idle") =>
                 /\ dm'.nextPage = dm.nextPage
                 /\ dret'.t = t /\ dret'.op = "AllocatePage" /\ dret'.err # "nil"]_vars

\* C26 witness: a ReadPage of page 0 is past its bounds check while another
\* thread is inside the zero-fill of page 1.
C26_Witness ==
    \E t, u \in Threads :
        /\ dpc[t] = "readio" /\ dop[t].pageID = 0
        /\ dpc[u] = "alloc" /\ dop[u].pageID = 1

\* ------------------------------------------------------------ NewPage result
\* NewPage of thread t installs its page in this step.
NewPageInstalls(t) == pc[t] = "newpage" /\ pc'[t] = "latch"

\* The caller of NewPage receives the pin in this step: latch.Lock returns.
NewPageReturns(t) == pc[t] \in {"latch", "wlock"} /\ pc'[t] = "held" /\ pin[t].new

\* C27: a successful NewPage installs a page id that no NewPage was given
\* before, in Exclusive mode and with pinCount 1, and the bytes of the frame
\* are all zero when the caller receives the pin.
C27_NewPageResult ==
    [][\A t \in Threads :
          /\ NewPageInstalls(t) =>
                /\ pin'[t].mode = LatchExclusive
                /\ pin'[t].pageID \notin Allocated
                /\ pool'.frames[pin'[t].frameID].pinCount = 1
                /\ pool'.frames[pin'[t].frameID].data = Zero
          /\ NewPageReturns(t) =>
                /\ latch'[pin[t].frameID].w = t
                /\ pool'.frames[pin[t].frameID].data = Zero]_vars

\* ------------------------------------------------------------ slot id choice
UnusedSlots(data) == {s \in 0..(slotCount(data) - 1) : unpackSlot(data, s).flags = slotUnused}

Lowest(S) == CHOOSE s \in S : \A r \in S : s <= r

\* InsertTuple returns a slot in this step.
InsertReturns ==
    /\ spGhost'.ops = spGhost.ops + 1
    /\ spRet'.op = "InsertTuple" /\ spRet'.err = "nil"

\* C28: InsertTuple returns the lowest Unused slot and leaves slot_count as
\* it was when there is an Unused slot, and otherwise returns the old
\* slot_count and adds exactly 1 to it, whatever calls on existing slots
\* came before.
C28_SlotIdChoice ==
    [][(InsertReturns /\ ~spGhost'.misuse) =>
          IF UnusedSlots(spData) # {}
          THEN /\ spRet'.slotID = Lowest(UnusedSlots(spData))
               /\ slotCount(spData') = slotCount(spData)
          ELSE /\ spRet'.slotID = slotCount(spData)
               /\ slotCount(spData') = slotCount(spData) + 1]_vars

\* ------------------------------------------- frame of DeleteTuple/SetUnused
\* DeleteTuple or SetTupleAsUnused returns nil in this step.
FlagCallReturns ==
    /\ spGhost'.ops = spGhost.ops + 1
    /\ spRet'.op \in {"DeleteTuple", "SetTupleAsUnused"} /\ spRet'.err = "nil"

\* The bytes of the tuple region of slot r, when it lies inside the buffer.
tupleRegion(data, r) ==
    LET u == unpackSlot(data, r)
    IN  IF sliceOk(data, u.offset, u.offset + u.length)
        THEN SubSeq(data, u.offset + 1, u.offset + u.length) ELSE <<>>

\* C29: a DeleteTuple(s) or SetTupleAsUnused(s) that returns nil leaves
\* slot_count, free_space_pointer, the offset and length of every slot, the
\* flag of every slot but s, and the tuple bytes of every slot as they were.
C29_FlagFrame ==
    [][FlagCallReturns =>
          /\ slotCount(spData') = slotCount(spData)
          /\ freeSpacePointer(spData') = freeSpacePointer(spData)
          /\ \A r \in 0..(slotCount(spData) - 1) :
                /\ unpackSlot(spData', r).offset = unpackSlot(spData, r).offset
                /\ unpackSlot(spData', r).length = unpackSlot(spData, r).length
                /\ r # spRet'.slotID => unpackSlot(spData', r).flags = unpackSlot(spData, r).flags
                /\ r = spRet'.slotID =>
                      unpackSlot(spData', r).flags
                        = IF spRet'.op = "DeleteTuple" THEN slotDead ELSE slotUnused
                /\ tupleRegion(spData', r) = tupleRegion(spData, r)]_vars

\* ------------------------------------------------------- compaction layout
\* InsertTuple runs compact in this step and compact returns.
CompactReturns ==
    /\ spGhost'.ops = spGhost.ops + 1
    /\ spRet'.op = "InsertTuple"
    /\ runsCompact(spData, spRet'.arg)
    /\ compact(spData).err = "nil"

\* The regions of the slots that are not Unused lie one below the other from
\* the end of the buffer down, in slot order, and the free space pointer is
\* at the lowest of them.
CompactLayout(data) ==
    /\ \A s \in NonUnused(data) :
          unpackSlot(data, s).offset
            = Len(data) - SumLengths(data, {r \in NonUnused(data) : r <= s})
    /\ freeSpacePointer(data) = Len(data) - SumLengths(data, NonUnused(data))

GetReturns(t) == kpc[t] = "getrunlock" /\ kpc'[t] = "idle"

\* Set stores its value in this step.
SetStores(t) == kpc[t] = "setstore" /\ kpc'[t] = "setunlock"

\* C22: a Get that returns gives the value of the Set on its key that
\* returned last, and ErrKeyNotFound exactly when no Set on its key has
\* returned; a Set changes the entry of its own key only; and whenever no
\* Set is between Lock and Unlock every key holds the value of the Set on it
\* that returned last.
C22_KvLatestSet ==
    /\ [][\A t \in Threads :
             GetReturns(t) =>
                 /\ kvRet'.t = t /\ kvRet'.op = "Get" /\ kvRet'.key = kop[t].key
                 /\ (kvRet'.err = "ErrKeyNotFound") = ~kvGhost.done[kop[t].key].ok
                 /\ (kvRet'.err = "nil") = kvGhost.done[kop[t].key].ok
                 /\ kvRet'.err = "nil" => kvRet'.value = kvGhost.done[kop[t].key].v]_vars
    /\ [][\A t \in Threads :
             SetStores(t) =>
                 \A k \in Words \ {kop[t].key} : kvData'[k] = kvData[k]]_vars
    /\ [](kvMtx.w = NoThread => kvData = kvGhost.done)

\* A Get returned the value of one Set on its key while another thread,
\* which has called Set on the same key with another value, waits for the
\* lock, and the other key holds a value as well.
C22_Witness ==
    \E u \in Threads :
        /\ kvRet.op = "Get" /\ kvRet.err = "nil" /\ kvRet.t # u
        /\ kpc[u] = "setlock" /\ kop[u].key = kvRet.key /\ kop[u].value # kvRet.value
        /\ \E k \in KvArgs \ {kvRet.key} : kvData[k].ok

\* ---------------------------------------------------------------- executor
ExecuteReturns == exGhost'.ops = exGhost.ops + 1

\* C23: Execute on a command line of the fields f returns "OK" and stores
\* the pair when f is set, a key and a value; returns the stored value, or
\* ErrKeyNotFound, when f is get and a key; ErrInvalidCommandSyntax when f is
\* empty or is set or get with another number of fields; ErrUnknownCommand
\* for another first word; and leaves the engine as it was whenever it
\* returns an error.
C23_ExecuteContract ==
    [][ExecuteReturns =>
          LET f == exRet'.fields
          IN  /\ (Len(f) = 3 /\ f[1] = W_set) =>
                    /\ exRet'.err = "nil" /\ exRet'.text = W_OK
                    /\ kvData' = [kvData EXCEPT ![f[2]] = [ok |-> TRUE, v |-> f[3]]]
              /\ (Len(f) = 2 /\ f[1] = W_get) =>
                    /\ kvData' = kvData
                    /\ IF kvData[f[2]].ok
                       THEN exRet'.err = "nil" /\ exRet'.text = kvData[f[2]].v
                       ELSE exRet'.err = "ErrKeyNotFound"
              /\ (Len(f) = 0 \/ (Len(f) > 0 /\ f[1] = W_set /\ Len(f) # 3)
                             \/ (Len(f) > 0 /\ f[1] = W_get /\ Len(f) # 2)) =>
                    exRet'.err = "ErrInvalidCommandSyntax"
              /\ (Len(f) > 0 /\ f[1] \notin {W_set, W_get}) =>
                    exRet'.err = "ErrUnknownCommand"
              /\ exRet'.err # "nil" => kvData' = kvData]_vars

\* The third call, a padded "get k", returned the stored value "get".
C23_Witness ==
    /\ exGhost.ops = 3
    /\ exRet.fields = <<W_get, <<"k">>>> /\ exRet.cmd # commandLine(exRet.fields, "plain")
    /\ exRet.err = "nil" /\ exRet.text = W_get
    /\ kvData[<<"k">>] = [ok |-> TRUE, v |-> W_get]

\* ------------------------------------------- 16-bit arithmetic, space checks
\* InsertTuple is called in this step.
InsertCalled ==
    /\ spGhost'.ops = spGhost.ops + 1
    /\ spRet'.op = "InsertTuple"

\* The tuple is longer than all the bytes a page of this size has after its
\* header: it fits in no state of the page.
NeverFits(data, t) == t.len > Len(data) - headerSize

\* C31: an InsertTuple of a tuple that is longer than the page returns
\* ErrPageFull and writes nothing, also when its length plus the slot cost
\* does not fit in 16 bits.
C31_NoSuccessOnOverflow ==
    [][(InsertCalled /\ NeverFits(spData, spRet'.arg)) =>
          /\ spRet'.err = "ErrPageFull"
          /\ spData' = spData]_vars

\* ------------------------------------------------------------ underflow guard
\* The slot directory ends above the free space pointer.
DirectoryOverFree(data) == headerSize + slotSize * slotCount(data) > freeSpacePointer(data)

\* C32: on a page whose slot directory ends above its free space pointer the
\* fast space check of InsertTuple fails, the call returns ErrPageFull and
\* no byte of the page changes.
C32_UnderflowGuard ==
    [][(InsertCalled /\ DirectoryOverFree(spData) /\ findSlotID(spData).ok) =>
          /\ ~isAvailableSpace(spData, findSlotID(spData).slotID, spRet'.arg.len)
          /\ spRet'.err = "ErrPageFull"
          /\ spData' = spData]_vars

\* ----------------------------------------------- failed pool operations
\* NewPage or FetchPage of thread t returns an error in this step.
PoolCallFails(t) == pc[t] \in {"newpage", "fetch"} /\ pc'[t] = "idle" /\ ret'.err # "nil"

\* C33: a NewPage or FetchPage that returns an error leaves the free frames,
\* the page table, the replacer and every pin count as they were.
C33_FailedCallNoEffect ==
    [][\A t \in Threads :
          PoolCallFails(t) =>
              /\ pool'.freeFrameIDs = pool.freeFrameIDs
              /\ pool'.pageToFrameMap = pool.pageToFrameMap
              /\ pool'.replacer = pool.replacer
              /\ \A f \in FrameIds : pool'.frames[f].pinCount = pool.frames[f].pinCount]_vars

\* ---------------------------------------------- evictable-set bookkeeping
\* The frame is in the replacer's ordering.
InReplacer(f) == \E i \in 1..Len(pool.replacer.list) : pool.replacer.list[i] = f

FrameMapped(f) == \E pageID \in PageIds : pool.pageToFrameMap[pageID] = f

\* The pins handed out for the frame and not yet released.
PinsOn(f) == {t \in Threads : Pinned(t) /\ pin[t].frameID = f}

\* The frame is in the ordering exactly when it is mapped with pin count 0.
EvictableExact == \A f \in FrameIds : InReplacer(f) <=> (FrameMapped(f) /\ pool.frames[f].pinCount = 0)

\* The pin count is the number of pins handed out and not released.
PinCountExact == \A f \in FrameIds : pool.frames[f].pinCount = Cardinality(PinsOn(f))

\* Unpin hands the frame to the replacer only when it is not in the ordering.
UnpinOnce ==
    \A t \in Threads :
        (pc[t] = "unpinmu" /\ pool.frames[pin[t].frameID].pinCount = 1)
            => ~InReplacer(pin[t].frameID)

\* C34: whenever the pool mutex is free, a frame is in the replacer's
\* ordering exactly when it is mapped and has pin count 0, and every pin
\* count is the number of pins handed out and not yet released; the pool
\* never calls replacer.Unpin for a frame that is in the ordering.
C34_EvictableBookkeeping ==
    /\ mu = NoThread => (EvictableExact /\ PinCountExact)
    /\ UnpinOnce

\* ---------------------------------------- disk manager, atomic counter
\* ReadPage of thread t passes its bounds check in this step.
AtomReadPasses(t) == apc[t] = "idle" /\ apc'[t] = "readio"

\* C35: a ReadPage that passes the bounds check is of a page whose zero page
\* AllocatePage has already written to the file.
C35_AtomicAllocBeforeRead ==
    [][\A t \in Threads :
          AtomReadPasses(t) =>
              /\ aop'[t].pageID \in adm.filled
              /\ aop'[t].pageID < Len(adm.file)]_vars

====
